---- MODULE Spec2Model ----
(***************************************************************************)
(* Model of unmute's conversation state machine                            *)
(* (src/unmute/llm/chatbot.py) and of the message preprocessing filter     *)
(* (src/unmute/llm/llm_utils.py).                                          *)
(*                                                                         *)
(* A text is a sequence of one-character strings.  A message is a record   *)
(* with the keys of the Python dict it models: role and content, plus      *)
(* tool_calls or tool_call_id on the messages the tool loop appends.       *)
(***************************************************************************)
EXTENDS Integers, Sequences, FiniteSets, TLC

(***************************************************************************)
(* Bounds of the model.                                                    *)
(***************************************************************************)
MaxHistory == 3
MaxText == 4
MaxRounds == 2
MaxToolHistory == 6
MaxInput == 3
MaxChunks == 2
MaxRechunkText == 4
MaxSanitizerText == 3
MaxTtsFrames == 2
MaxTtsText == 3

\* The frames of the remote in a recognition session.
MaxSttFrames == 2

\* The chunks of the input of a recognition session.
MaxSttChunks == 2

\* The chunks a backend produces for one completion.
MaxStreamChunks == 3

(***************************************************************************)
(* Texts.                                                                  *)
(***************************************************************************)
\* The em-dash (U+2014), written - in the model's texts.
INTERRUPTION_CHAR == "-"
USER_SILENCE_MARKER == <<".", ".", ".">>
HELLO_BANG == <<"H", "e", "l", "l", "o", "!">>
HELLO_DOT == <<"H", "e", "l", "l", "o", ".">>

\* str.isspace() on one character; the model's texts hold two whitespace
\* characters, the space and the newline.
isspace(c) == c \in {" ", "\n"}

\* s.strip(): s without its leading and trailing whitespace.
RECURSIVE lstrip(_)
lstrip(s) ==
    IF s # <<>> /\ isspace(Head(s)) THEN lstrip(Tail(s)) ELSE s

RECURSIVE rstrip(_)
rstrip(s) ==
    IF s # <<>> /\ isspace(s[Len(s)]) THEN rstrip(SubSeq(s, 1, Len(s) - 1)) ELSE s

strip(s) == rstrip(lstrip(s))

\* s.replace(INTERRUPTION_CHAR, "")
RemoveInterruption(s) == SelectSeq(s, LAMBDA c : c # INTERRUPTION_CHAR)

\* s.startswith(p)
startswith(s, p) == Len(s) >= Len(p) /\ SubSeq(s, 1, Len(p)) = p

(***************************************************************************)
(* Inputs.                                                                 *)
(***************************************************************************)
\* generating_message_i = None
NoIndex == -1

\* The role parameter is annotated Literal["user", "assistant"].
DeltaRoles == {"user", "assistant"}

\* The deltas the callers pass: empty, a word, whitespace, the silence marker.
Deltas == {<<>>, <<"a">>, <<" ">>, USER_SILENCE_MARKER}

\* What make_system_prompt() can return.
Prompts == {<<"P">>, <<"Q">>}

\* The Instructions objects handed to set_instructions.
InstructionsSet == {"smalltalk"}

\* The names in tool_registry.tools (tools/time.py registers itself).
KnownTools == {"get_current_time"}

\* The tool calls a model sends.  function.arguments is a dict ("dict"), a
\* string json.loads accepts ("json") or a string it rejects ("bad_json");
\* the id key may be missing.
call_time == [id |-> "c1", function |-> [name |-> "get_current_time", arguments |-> "dict"]]
call_missing == [id |-> "c2", function |-> [name |-> "missing", arguments |-> "json"]]
call_bad_json == [function |-> [name |-> "get_current_time", arguments |-> "bad_json"]]

\* The batches of the interleaved model: one call, and two calls.
Batches == {<<call_time>>, <<call_missing, call_time>>}

\* What tools[function_name].execute(**args) does: it returns or it raises.
ToolOutcomes == {"returns", "raises"}

\* The chunks chat_completion_with_tools yields: a dict of type content, of type
\* tool_calls, or of another type.
content_of(text) == [type |-> "content", content |-> text]
tool_calls_of(tool_calls) == [type |-> "tool_calls", tool_calls |-> tool_calls]
done_chunk == [type |-> "done"]

\* The streams a completion request of the interleaved model is answered
\* with: nothing but the end of the stream, or one batch of tool calls.
ToolsStreams == {<<>>} \cup {<<tool_calls_of(b)>> : b \in Batches}

VARIABLES
    chat_history,    \* Chatbot.chat_history
    instructions,    \* Chatbot._instructions ("None" before set_instructions)
    tools_enabled,   \* Chatbot.tools_enabled
    t_pc,            \* where process_ollama_with_tools stands
    t_batch,         \* the tool calls of the current batch not yet executed
    t_round,         \* completion requests issued by the current run
    t_stream,        \* the chunks the current request is answered with
    t_pos,           \* how many of them the loop has consumed
    t_yielded,       \* the deltas yielded since the current request
    rechunk,         \* the state of a rechunk_to_words generator
    sanitizer,       \* a stream of tokens passed through clean_text_for_tts
    tts,             \* a synthesis session of perfect_tts_test.py
    stt,             \* a recognition session of simple_stt_test.py
    call             \* the last operation: its name, its arguments, the
                     \* history it found (before) and its result (ret)

\* No rechunk_to_words generator is running.
rechunk_off == [pc |-> "off"]

\* No token stream and no session is running.
streams_off ==
    /\ sanitizer = [pc |-> "off"]
    /\ tts = [pc |-> "off"]
    /\ stt = [pc |-> "off"]

vars == <<chat_history, instructions, tools_enabled,
          t_pc, t_batch, t_round, t_stream, t_pos, t_yielded, rechunk,
          sanitizer, tts, stt, call>>

\* The streaming components outside the Chatbot.
stream_vars == <<sanitizer, tts, stt>>

tool_vars == <<t_pc, t_batch, t_round, t_stream, t_pos, t_yielded>>

Msg(r, c) == [role |-> r, content |-> c]

(***************************************************************************)
(* Chatbot.conversation_state                                              *)
(***************************************************************************)
\* conversation_state with content != "" in place of content.strip() != "".
conversation_state_no_strip(history) ==
    IF history = <<>> THEN "waiting_for_user"
    ELSE LET last_message == history[Len(history)] IN
         IF last_message.role = "assistant" THEN "bot_speaking"
         ELSE IF last_message.role = "user" THEN
             IF last_message.content # <<>> THEN "user_speaking"
             ELSE "waiting_for_user"
         ELSE IF last_message.role = "system" THEN "waiting_for_user"
         ELSE IF last_message.role = "tool" THEN "waiting_for_user"
         ELSE "RuntimeError"

conversation_state(history) ==
    IF history = <<>> THEN "waiting_for_user"
    ELSE LET last_message == history[Len(history)] IN
         IF last_message.role = "assistant" THEN "bot_speaking"
         ELSE IF last_message.role = "user" THEN
             IF strip(last_message.content) # <<>> THEN "user_speaking"
             ELSE "waiting_for_user"
         ELSE IF last_message.role = "system" THEN "waiting_for_user"
         ELSE IF last_message.role = "tool" THEN "waiting_for_user"
         ELSE "RuntimeError"

(***************************************************************************)
(* Chatbot.add_chat_message_delta                                          *)
(***************************************************************************)
\* The guard with == in place of >: only the index just behind is refused.
index_rejected_last_only(history, generating_message_i) ==
    generating_message_i # NoIndex /\ Len(history) = generating_message_i + 1

\* The guard of the early return.
index_rejected(history, generating_message_i) ==
    generating_message_i # NoIndex /\ Len(history) > generating_message_i

\* needs_space_left without the isspace() test.
needs_space_left_any(last_message) == last_message # <<>>

needs_space_left(last_message) ==
    last_message # <<>> /\ ~isspace(last_message[Len(last_message)])

needs_space_right(delta) ==
    delta # <<>> /\ ~isspace(delta[1])

\* The content of the last message after a same-role delta.
concat_delta(last_message, delta) ==
    IF needs_space_left(last_message) /\ needs_space_right(delta)
    THEN last_message \o <<" ">> \o delta
    ELSE last_message \o delta

\* history_after_delta with the space computed before the roles are compared,
\* so that a new message starts with it.
history_after_delta_spaced(history, delta, role, generating_message_i) ==
    IF index_rejected(history, generating_message_i) THEN history
    ELSE IF history = <<>> THEN Append(history, Msg(role, delta))
    ELSE IF history[Len(history)].role # role
    THEN Append(history,
             Msg(role, IF /\ needs_space_left(history[Len(history)].content)
                          /\ needs_space_right(delta)
                       THEN <<" ">> \o delta ELSE delta))
    ELSE [history EXCEPT ![Len(history)].content = concat_delta(@, delta)]

\* The history the call leaves behind.
history_after_delta(history, delta, role, generating_message_i) ==
    IF index_rejected(history, generating_message_i) THEN history
    ELSE IF history = <<>> \/ history[Len(history)].role # role
    THEN Append(history, Msg(role, delta))
    ELSE [history EXCEPT ![Len(history)].content = concat_delta(@, delta)]

\* delta_returns with a continuation counted as new only when it brings the
\* first text.
delta_returns_first_text(history, delta, role, generating_message_i) ==
    IF index_rejected(history, generating_message_i) THEN FALSE
    ELSE IF history = <<>> \/ history[Len(history)].role # role THEN TRUE
    ELSE history[Len(history)].content = <<>> /\ delta # <<>>

\* The value the call returns.
delta_returns(history, delta, role, generating_message_i) ==
    IF index_rejected(history, generating_message_i) THEN FALSE
    ELSE IF history = <<>> \/ history[Len(history)].role # role THEN TRUE
    ELSE history[Len(history)].content = <<>>

\* The characters the messages after the system prompt hold.
RECURSIVE text_size(_)
text_size(history) ==
    IF Len(history) <= 1 THEN 0
    ELSE Len(history[Len(history)].content)
         + text_size(SubSeq(history, 1, Len(history) - 1))

add_chat_message_delta(delta, role, generating_message_i) ==
    LET after == history_after_delta(chat_history, delta, role, generating_message_i)
    IN /\ Len(after) <= MaxHistory
       /\ text_size(after) <= MaxText
       /\ chat_history' = after
       /\ call' = [op |-> "add_chat_message_delta", delta |-> delta, role |-> role,
                   generating_message_i |-> generating_message_i,
                   before |-> chat_history,
                   ret |-> delta_returns(chat_history, delta, role,
                                         generating_message_i)]
       /\ UNCHANGED <<instructions, tools_enabled, tool_vars, rechunk, stream_vars>>

(***************************************************************************)
(* preprocess_messages_for_llm                                             *)
(***************************************************************************)
\* The first loop: drop the messages that hold nothing but interruption
\* characters and merge a message into the previous one of the same role.
\* drop_and_merge keeping the later message's fields in a merge.
RECURSIVE drop_and_merge_into_later(_, _, _)
drop_and_merge_into_later(messages, i, output) ==
    IF i > Len(messages) THEN output
    ELSE LET message == messages[i] IN
         IF RemoveInterruption(message.content) = <<>>
         THEN drop_and_merge_into_later(messages, i + 1, output)
         ELSE IF output # <<>> /\ message.role = output[Len(output)].role
         THEN drop_and_merge_into_later(messages, i + 1,
                  [output EXCEPT ![Len(output)] =
                      [message EXCEPT !.content =
                          output[Len(output)].content \o <<" ">> \o message.content]])
         ELSE drop_and_merge_into_later(messages, i + 1, Append(output, message))

\* drop_and_merge dropping nothing.
RECURSIVE drop_and_merge_keeps_empty(_, _, _)
drop_and_merge_keeps_empty(messages, i, output) ==
    IF i > Len(messages) THEN output
    ELSE LET message == messages[i] IN
         IF output # <<>> /\ message.role = output[Len(output)].role
         THEN drop_and_merge_keeps_empty(messages, i + 1,
                  [output EXCEPT ![Len(output)].content = @ \o <<" ">> \o message.content])
         ELSE drop_and_merge_keeps_empty(messages, i + 1, Append(output, message))

\* drop_and_merge dropping only the messages whose content is empty as it is.
RECURSIVE drop_and_merge_empty_only(_, _, _)
drop_and_merge_empty_only(messages, i, output) ==
    IF i > Len(messages) THEN output
    ELSE LET message == messages[i] IN
         IF message.content = <<>>
         THEN drop_and_merge_empty_only(messages, i + 1, output)
         ELSE IF output # <<>> /\ message.role = output[Len(output)].role
         THEN drop_and_merge_empty_only(messages, i + 1,
                  [output EXCEPT ![Len(output)].content = @ \o <<" ">> \o message.content])
         ELSE drop_and_merge_empty_only(messages, i + 1, Append(output, message))

\* drop_and_merge merging without the separating space.
RECURSIVE drop_and_merge_no_space(_, _, _)
drop_and_merge_no_space(messages, i, output) ==
    IF i > Len(messages) THEN output
    ELSE LET message == messages[i] IN
         IF RemoveInterruption(message.content) = <<>>
         THEN drop_and_merge_no_space(messages, i + 1, output)
         ELSE IF output # <<>> /\ message.role = output[Len(output)].role
         THEN drop_and_merge_no_space(messages, i + 1,
                  [output EXCEPT ![Len(output)].content = @ \o message.content])
         ELSE drop_and_merge_no_space(messages, i + 1, Append(output, message))

RECURSIVE drop_and_merge(_, _, _)
drop_and_merge(messages, i, output) ==
    IF i > Len(messages) THEN output
    ELSE LET message == messages[i] IN
         IF RemoveInterruption(message.content) = <<>>
         THEN drop_and_merge(messages, i + 1, output)
         ELSE IF output # <<>> /\ message.role = output[Len(output)].role
         THEN drop_and_merge(messages, i + 1,
                  [output EXCEPT ![Len(output)].content = @ \o <<" ">> \o message.content])
         ELSE drop_and_merge(messages, i + 1, Append(output, message))

\* role_at(index), with a 0-based index as in the source
role_at(output, index) ==
    IF index >= Len(output) THEN "None" ELSE output[index + 1].role

\* insert_hello looking for an assistant message only, not for a missing one.
insert_hello_before_assistant(output) ==
    IF role_at(output, 0) = "system" /\ role_at(output, 1) = "assistant"
    THEN <<output[1]>> \o <<Msg("user", HELLO_DOT)>> \o SubSeq(output, 2, Len(output))
    ELSE output

\* The dummy user message after a leading system message.
insert_hello(output) ==
    IF role_at(output, 0) = "system" /\ role_at(output, 1) \in {"None", "assistant"}
    THEN <<output[1]>> \o <<Msg("user", HELLO_DOT)>> \o SubSeq(output, 2, Len(output))
    ELSE output

\* The last loop, which runs over the messages passed in, not over the copies
\* in output: it takes the silence marker off the caller's user messages.
strip_silence_marker(messages) ==
    [i \in 1..Len(messages) |->
        IF /\ messages[i].role = "user"
           /\ startswith(messages[i].content, USER_SILENCE_MARKER)
           /\ messages[i].content # USER_SILENCE_MARKER
        THEN [messages[i] EXCEPT !.content =
                 SubSeq(@, Len(USER_SILENCE_MARKER) + 1, Len(@))]
        ELSE messages[i]]

\* The list returned, and the list passed in as the call leaves it.
preprocess_messages_for_llm(messages) ==
    [output |-> insert_hello(drop_and_merge(messages, 1, <<>>)),
     messages |-> strip_silence_marker(messages)]

(***************************************************************************)
(* Chatbot.preprocessed_messages                                           *)
(***************************************************************************)
\* messages_to_preprocess with the history used from 2 messages on.
messages_to_preprocess_from_two(history) ==
    IF Len(history) > 1 THEN history
    ELSE <<history[1], Msg("user", HELLO_BANG)>>

\* The list handed to the filter.
messages_to_preprocess(history) ==
    IF Len(history) > 2 THEN history
    ELSE <<history[1], Msg("user", HELLO_BANG)>>

\* The view returned.
preprocessed_view(history) ==
    preprocess_messages_for_llm(messages_to_preprocess(history)).output

\* The history after the call: the filter works on the history's own dicts
\* (the list itself when it has more than 2 messages, its first dict else).
history_after_preprocess(history) ==
    LET after == preprocess_messages_for_llm(messages_to_preprocess(history)).messages
    IN IF Len(history) > 2 THEN after
       ELSE [history EXCEPT ![1] = after[1]]

preprocessed_messages ==
    /\ chat_history' = history_after_preprocess(chat_history)
    /\ call' = [op |-> "preprocessed_messages", before |-> chat_history,
                ret |-> preprocessed_view(chat_history)]
    /\ UNCHANGED <<instructions, tools_enabled, tool_vars, rechunk, stream_vars>>

(***************************************************************************)
(* Chatbot.set_instructions and Chatbot._update_system_prompt              *)
(***************************************************************************)
\* _update_system_prompt writing the role of a user message.
update_system_prompt_as_user(history, system_prompt) ==
    [history EXCEPT ![1] = Msg("user", system_prompt)]

\* _update_system_prompt replacing chat_history[-1].
update_system_prompt_at_end(history, system_prompt) ==
    [history EXCEPT ![Len(history)] = Msg("system", system_prompt)]

update_system_prompt(history, system_prompt) ==
    [history EXCEPT ![1] = Msg("system", system_prompt)]

\* make_system_prompt() is not deterministic: each invocation returns any
\* prompt.  prompts lists the values its invocations returned, in order.
set_instructions(new_instructions, prompts) ==
    /\ chat_history' = update_system_prompt(chat_history, prompts[1])
    /\ instructions' = new_instructions
    /\ call' = [op |-> "set_instructions", prompts |-> prompts,
                before |-> chat_history]
    /\ UNCHANGED <<tools_enabled, tool_vars, rechunk, stream_vars>>

\* How often set_instructions invokes make_system_prompt().
prompt_invocations == 1

SetInstructions ==
    \E new_instructions \in InstructionsSet :
        \E prompts \in [1..prompt_invocations -> Prompts] :
            set_instructions(new_instructions, prompts)

(***************************************************************************)
(* The read-only operations                                                *)
(***************************************************************************)
ConversationState ==
    /\ call' = [op |-> "conversation_state", before |-> chat_history,
                ret |-> conversation_state(chat_history)]
    /\ UNCHANGED <<chat_history, instructions, tools_enabled, tool_vars, rechunk, stream_vars>>

get_system_prompt ==
    /\ Len(chat_history) > 0
    /\ chat_history[1].role = "system"
    /\ call' = [op |-> "get_system_prompt", before |-> chat_history,
                ret |-> chat_history[1].content]
    /\ UNCHANGED <<chat_history, instructions, tools_enabled, tool_vars, rechunk, stream_vars>>

\* The content of the last non-blank message of the role, <<"None">> without one.
last_message_of(history, role) ==
    LET valid_messages ==
            SelectSeq(history, LAMBDA m : m.role = role /\ strip(m.content) # <<>>)
    IN IF valid_messages # <<>>
       THEN valid_messages[Len(valid_messages)].content
       ELSE <<"None">>

last_message(role) ==
    /\ call' = [op |-> "last_message", role |-> role, before |-> chat_history,
                ret |-> last_message_of(chat_history, role)]
    /\ UNCHANGED <<chat_history, instructions, tools_enabled, tool_vars, rechunk, stream_vars>>

enable_tools ==
    /\ ~tools_enabled
    /\ tools_enabled' = TRUE
    /\ call' = [op |-> "enable_tools"]
    /\ UNCHANGED <<chat_history, instructions, tool_vars, rechunk, stream_vars>>

(***************************************************************************)
(* ToolRegistry.execute_tool (src/unmute/llm/tools/__init__.py)            *)
(***************************************************************************)
\* The texts execute_tool builds, one character each in the model: the
\* not-found error, the execution error and the str() of a tool's result.
NOT_FOUND == <<"N">>
EXEC_ERROR == <<"X">>
RESULT_STR == <<"r">>

\* The try block: json.loads on string arguments, then the tool's execute.
try_execute(tool_call, outcome) ==
    IF tool_call.function.arguments = "bad_json"
    THEN [raised |-> TRUE, text |-> <<>>]
    ELSE IF outcome = "raises"
    THEN [raised |-> TRUE, text |-> <<>>]
    ELSE [raised |-> FALSE, text |-> RESULT_STR]

\* execute_tool with no except clause around the try block.
execute_tool_uncaught(tool_call, outcome) ==
    IF tool_call.function.name \notin KnownTools
    THEN [raised |-> FALSE, text |-> NOT_FOUND]
    ELSE try_execute(tool_call, outcome)

\* execute_tool: what it returns, and whether an exception leaves it.
execute_tool(tool_call, outcome) ==
    IF tool_call.function.name \notin KnownTools
    THEN [raised |-> FALSE, text |-> NOT_FOUND]
    ELSE IF try_execute(tool_call, outcome).raised
    THEN [raised |-> FALSE, text |-> EXEC_ERROR]
    ELSE try_execute(tool_call, outcome)

(***************************************************************************)
(* Chatbot.process_ollama_with_tools, an async generator: it is suspended  *)
(* at each yield, while it waits for the next chunk of the stream and      *)
(* while it awaits execute_tool, and the other operations run meanwhile.   *)
(***************************************************************************)
\* No run of the generator has started.
tool_idle ==
    /\ t_pc = "idle"
    /\ t_batch = <<>>
    /\ t_round = 0
    /\ t_stream = <<>>
    /\ t_pos = 0
    /\ t_yielded = <<>>

\* A completion request: the stream that answers it is read from its start.
completion_request(stream) ==
    /\ t_stream' = stream
    /\ t_pos' = 0
    /\ t_yielded' = <<>>

\* The call: the view is computed and the first completion request issued.
process_ollama_with_tools(stream) ==
    /\ t_pc \in {"idle", "done"}
    /\ chat_history' = history_after_preprocess(chat_history)
    /\ t_pc' = IF tools_enabled THEN "stream" ELSE "plain"
    /\ t_round' = 1
    /\ t_batch' = <<>>
    /\ completion_request(stream)
    /\ call' = [op |-> "process_ollama_with_tools", before |-> chat_history,
                request |-> preprocessed_view(chat_history)]
    /\ UNCHANGED <<instructions, tools_enabled, rechunk, stream_vars>>

\* The chunk the generator is waiting for.
chunk == t_stream[t_pos + 1]

\* Tools disabled: a delta of chat_completion(messages) is yielded.
plain_delta ==
    /\ t_pc = "plain"
    /\ t_pos < Len(t_stream)
    /\ t_pos' = t_pos + 1
    /\ t_yielded' = Append(t_yielded, chunk)
    /\ call' = [op |-> "yield", delta |-> chunk]
    /\ UNCHANGED <<chat_history, instructions, tools_enabled,
                   t_pc, t_batch, t_round, t_stream, rechunk, stream_vars>>

\* Tools disabled: the stream ends and the generator returns.
plain_end ==
    /\ t_pc = "plain"
    /\ t_pos = Len(t_stream)
    /\ t_pc' = "done"
    /\ call' = [op |-> "return"]
    /\ UNCHANGED <<chat_history, instructions, tools_enabled,
                   t_batch, t_round, t_stream, t_pos, t_yielded, rechunk, stream_vars>>

\* The yields with a content chunk swallowed.
yielded_after_dropped(yielded, content) == yielded

\* yield chunk["content"]
yielded_after(yielded, content) == Append(yielded, content)

\* A chunk of type content is yielded.
content_chunk ==
    /\ t_pc = "stream"
    /\ t_pos < Len(t_stream)
    /\ chunk.type = "content"
    /\ t_pos' = t_pos + 1
    /\ t_yielded' = yielded_after(t_yielded, chunk.content)
    /\ call' = [op |-> "yield", delta |-> chunk.content]
    /\ UNCHANGED <<chat_history, instructions, tools_enabled,
                   t_pc, t_batch, t_round, t_stream, rechunk, stream_vars>>

\* A chunk that is neither content nor tool_calls is passed over.
other_chunk ==
    /\ t_pc = "stream"
    /\ t_pos < Len(t_stream)
    /\ chunk.type \notin {"content", "tool_calls"}
    /\ t_pos' = t_pos + 1
    /\ call' = [op |-> "skip"]
    /\ UNCHANGED <<chat_history, instructions, tools_enabled,
                   t_pc, t_batch, t_round, t_stream, t_yielded, rechunk, stream_vars>>

\* The view computed before the last message of the batch was appended.
round_request_stale(history) ==
    preprocessed_view(SubSeq(history, 1, Len(history) - 1))

\* messages = self.preprocessed_messages() at the end of a batch.
round_request(history) == preprocessed_view(history)

\* The view is recomputed and the next completion request issued.
next_round(history, stream) ==
    /\ chat_history' = history_after_preprocess(history)
    /\ t_round' = t_round + 1
    /\ t_pc' = "stream"
    /\ completion_request(stream)

\* One assistant message for each call of the batch.
assistant_tool_messages_per_call(tool_calls) ==
    [k \in 1..Len(tool_calls) |->
        [role |-> "assistant", content |-> <<>>, tool_calls |-> <<tool_calls[k]>>]]

\* The message appended for a chunk of type tool_calls.
assistant_tool_messages(tool_calls) ==
    <<[role |-> "assistant", content |-> <<>>, tool_calls |-> tool_calls]>>

\* The tool message with the id default whatever the call carries.
tool_message_unknown_id(tool_call, result) ==
    [role |-> "tool", content |-> result, tool_call_id |-> "unknown"]

\* The message appended for an executed tool call.
tool_message(tool_call, result) ==
    [role |-> "tool", content |-> result,
     tool_call_id |-> IF "id" \in DOMAIN tool_call THEN tool_call.id ELSE "unknown"]

\* A chunk of type tool_calls: the assistant message is appended and the
\* generator awaits the first execute_tool; with no call in the batch it
\* goes on to its next round at once.
tool_calls_chunk(stream) ==
    /\ t_pc = "stream"
    /\ t_pos < Len(t_stream)
    /\ chunk.type = "tool_calls"
    /\ t_round < MaxRounds
    /\ Len(chat_history) + 1 + Len(chunk.tool_calls) <= MaxToolHistory
    /\ LET after == chat_history \o assistant_tool_messages(chunk.tool_calls)
       IN IF chunk.tool_calls = <<>>
          THEN /\ next_round(after, stream)
               /\ t_batch' = <<>>
               /\ call' = [op |-> "tool_calls", tool_calls |-> chunk.tool_calls,
                           before |-> chat_history, yielded |-> t_yielded,
                           request |-> round_request(after)]
          ELSE /\ chat_history' = after
               /\ t_batch' = chunk.tool_calls
               /\ t_pc' = "exec"
               /\ t_pos' = t_pos + 1
               /\ call' = [op |-> "tool_calls", tool_calls |-> chunk.tool_calls,
                           before |-> chat_history, yielded |-> t_yielded,
                           request |-> <<>>]
               /\ UNCHANGED <<t_round, t_stream, t_yielded>>
    /\ UNCHANGED <<instructions, tools_enabled, rechunk, stream_vars>>

\* execute_tool returns: the tool message is appended; after the last call
\* of the batch the loop goes on to its next round.  Were execute_tool to
\* raise, the exception would leave the generator.
tool_executed(outcome, stream) ==
    /\ t_pc = "exec"
    /\ t_batch # <<>>
    /\ LET tool_call == Head(t_batch)
           result == execute_tool(tool_call, outcome)
           after == Append(chat_history, tool_message(tool_call, result.text))
       IN IF result.raised
          THEN /\ t_pc' = "failed"
               /\ call' = [op |-> "execute_tool", tool_call |-> tool_call,
                           outcome |-> outcome, raised |-> TRUE,
                           before |-> chat_history]
               /\ UNCHANGED <<chat_history, t_batch, t_round, t_stream, t_pos, t_yielded>>
          ELSE /\ IF Len(t_batch) = 1
                  THEN next_round(after, stream)
                  ELSE /\ chat_history' = after
                       /\ UNCHANGED <<t_round, t_pc, t_stream, t_pos, t_yielded>>
               /\ t_batch' = Tail(t_batch)
               /\ call' = [op |-> "execute_tool", tool_call |-> tool_call,
                           outcome |-> outcome, raised |-> FALSE,
                           ret |-> result.text, before |-> chat_history,
                           last |-> Len(t_batch) = 1,
                           request |-> IF Len(t_batch) = 1
                                       THEN round_request(after)
                                       ELSE <<>>]
    /\ UNCHANGED <<instructions, tools_enabled, rechunk, stream_vars>>

\* The stream of a round ends without a chunk of type tool_calls.
stream_end ==
    /\ t_pc = "stream"
    /\ t_pos = Len(t_stream)
    /\ t_pc' = "done"
    /\ call' = [op |-> "return"]
    /\ UNCHANGED <<chat_history, instructions, tools_enabled,
                   t_batch, t_round, t_stream, t_pos, t_yielded, rechunk, stream_vars>>

(***************************************************************************)
(* rechunk_to_words (src/unmute/llm/llm_utils.py), an async generator over *)
(* an iterator of deltas.                                                  *)
(***************************************************************************)
\* The place of the first whitespace character of the buffer, 0 if none:
\* match.start() + 1 of space_re.search(buffer), None if no match.
RECURSIVE search(_)
search(buffer) ==
    IF buffer = <<>> THEN 0
    ELSE IF isspace(Head(buffer)) THEN 1
    ELSE IF search(Tail(buffer)) = 0 THEN 0
    ELSE 1 + search(Tail(buffer))

\* The buffer holds the last delta only.
buffer_replaced(buffer, delta) == delta

\* buffer = buffer + delta
buffer_after(buffer, delta) == buffer \o delta

\* The while loop: as long as the buffer holds whitespace, the text before
\* the first whitespace run is yielded behind the prefix, if it is not
\* empty, the buffer is cut after the run and the prefix is a space.
RECURSIVE split_buffer(_)
split_buffer(r) ==
    IF search(r.buffer) = 0 THEN r
    ELSE LET start == search(r.buffer)
             this == SubSeq(r.buffer, 1, start - 1)
             rest == lstrip(SubSeq(r.buffer, start, Len(r.buffer)))
         IN split_buffer([buffer |-> rest,
                          prefix |-> <<" ">>,
                          out |-> IF this # <<>>
                                  THEN Append(r.out, r.prefix \o this)
                                  ELSE r.out])

\* One turn of the async for: the delta joins the buffer, which is split.
feed(r, delta) ==
    split_buffer([r EXCEPT !.buffer = buffer_after(r.buffer, delta)])

\* What is left in the buffer is yielded without the prefix.
finish_without_prefix(r) ==
    IF r.buffer # <<>> THEN Append(r.out, r.buffer) ELSE r.out

\* After the iterator is exhausted: what is left in the buffer is yielded.
finish(r) ==
    IF r.buffer # <<>> THEN Append(r.out, r.prefix \o r.buffer) ELSE r.out

RECURSIVE feed_all(_, _)
feed_all(r, deltas) ==
    IF deltas = <<>> THEN r ELSE feed_all(feed(r, Head(deltas)), Tail(deltas))

\* The chunks rechunk_to_words yields for an iterator of deltas.
rechunk_to_words(deltas) ==
    finish(feed_all([buffer |-> <<>>, prefix |-> <<>>, out |-> <<>>], deltas))

\* The generator the caller iterates: text is what the deltas spell, fed
\* counts the deltas consumed.
rechunk_start(text, deltas) ==
    [pc |-> "run", text |-> text, deltas |-> deltas, fed |-> 0,
     buffer |-> <<>>, prefix |-> <<>>, out |-> <<>>]

rechunk_delta ==
    /\ rechunk.pc = "run"
    /\ rechunk.deltas # <<>>
    /\ LET r == feed([buffer |-> rechunk.buffer, prefix |-> rechunk.prefix,
                      out |-> rechunk.out], Head(rechunk.deltas))
       IN rechunk' = [rechunk EXCEPT !.deltas = Tail(@), !.fed = @ + 1,
                                     !.buffer = r.buffer, !.prefix = r.prefix,
                                     !.out = r.out]
    /\ UNCHANGED <<chat_history, instructions, tools_enabled, tool_vars, stream_vars, call>>

rechunk_end ==
    /\ rechunk.pc = "run"
    /\ rechunk.deltas = <<>>
    /\ rechunk' = [rechunk EXCEPT !.pc = "done",
                                  !.out = finish([buffer |-> rechunk.buffer,
                                                  prefix |-> rechunk.prefix,
                                                  out |-> rechunk.out])]
    /\ UNCHANGED <<chat_history, instructions, tools_enabled, tool_vars, stream_vars, call>>

(***************************************************************************)
(* clean_text_for_tts (src/unmute/llm/llm_utils.py) and the stream that    *)
(* passes each chunk of content through it.  The texts of this part are    *)
(* sequences of code points.                                               *)
(***************************************************************************)
\* The character class of emoji_pattern: U+1F600-1F64F, U+1F300-1F5FF,
\* U+1F680-1F6FF, U+1F1E0-1F1FF, U+2702-27B0 and U+24C2-1F251.
emoji_pattern(c) ==
    \/ c \in 128512..128591
    \/ c \in 127744..128511
    \/ c \in 128640..128767
    \/ c \in 127462..127487
    \/ c \in 9986..10160
    \/ c \in 9410..127569

\* Only a leading character of the class is removed.
clean_text_for_tts_leading(text) ==
    IF text # <<>> /\ emoji_pattern(Head(text)) THEN Tail(text) ELSE text

\* emoji_pattern.sub('', text)
clean_text_for_tts(text) == SelectSeq(text, LAMBDA c : ~emoji_pattern(c))

\* A stream of content chunks about to be read: text is what they spell.
chat_completion_start(impl, text, tokens) ==
    [pc |-> "run", impl |-> impl, text |-> text, chunks |-> tokens,
     tokens |-> tokens, fed |-> 0, out |-> <<>>]

sanitizer_start(text, tokens) == chat_completion_start("OllamaStream", text, tokens)

\* if cleaned_content: yield cleaned_content
yield_cleaned(out, cleaned_content) ==
    IF cleaned_content # <<>> THEN Append(out, cleaned_content) ELSE out

\* OllamaStream.chat_completion on a line with content: the content is
\* cleaned and yielded unless nothing is left of it.
ollama_content ==
    /\ sanitizer.pc = "run"
    /\ sanitizer.impl = "OllamaStream"
    /\ sanitizer.tokens # <<>>
    /\ LET content == Head(sanitizer.tokens)
           cleaned_content == clean_text_for_tts(content)
       IN sanitizer' = [sanitizer EXCEPT
                           !.tokens = Tail(@), !.fed = @ + 1,
                           !.out = IF content # <<>>
                                   THEN yield_cleaned(@, cleaned_content) ELSE @]
    /\ UNCHANGED <<chat_history, instructions, tools_enabled, tool_vars,
                   rechunk, tts, stt, call>>

\* VLLMStream.chat_completion on a chunk of the stream: an empty content is
\* passed over; the content is cleaned and logged, and the iteration goes
\* on: the function holds no yield.
vllm_content ==
    /\ sanitizer.pc = "run"
    /\ sanitizer.impl = "VLLMStream"
    /\ sanitizer.tokens # <<>>
    /\ sanitizer' = [sanitizer EXCEPT !.tokens = Tail(@), !.fed = @ + 1]
    /\ UNCHANGED <<chat_history, instructions, tools_enabled, tool_vars,
                   rechunk, tts, stt, call>>

\* The response has no more lines, the stream no more chunks.
ollama_end ==
    /\ sanitizer.pc = "run"
    /\ sanitizer.tokens = <<>>
    /\ sanitizer' = [sanitizer EXCEPT !.pc = "done"]
    /\ UNCHANGED <<chat_history, instructions, tools_enabled, tool_vars,
                   rechunk, tts, stt, call>>

(***************************************************************************)
(* test_perfect_tts (src/interface_test/perfect_tts_test.py): a synthesis  *)
(* session over one websocket, run by two tasks, wait_ready_then_receive   *)
(* and send_when_ready, that asyncio.gather waits for.                     *)
(*                                                                         *)
(* tts.inbox holds the frames of the remote not yet read, tts.closed how   *)
(* the remote has closed the connection ("no", "ok", "error"), tts.rx and  *)
(* tts.tx where the two tasks stand, tts.sent the frames sent.             *)
(***************************************************************************)
\* for i in range(10): the frames the purge reads at most.
PURGE_FRAMES == 10

\* if message_count > 500: break
MESSAGE_LIMIT == 500

\* text.split(): the words between the whitespace runs.
RECURSIVE split(_)
split(text) ==
    LET rest == lstrip(text) IN
    IF rest = <<>> THEN <<>>
    ELSE IF search(rest) = 0 THEN <<rest>>
    ELSE <<SubSeq(rest, 1, search(rest) - 1)>>
             \o split(SubSeq(rest, search(rest), Len(rest)))

\* The frames the client sends.
TTSClientTextMessage(word) == [type |-> "Text", text |-> word]
TTSClientEosMessage == [type |-> "Eos"]

\* The frames of the remote: Ready, Error, Audio with samples, the Text
\* frame with empty text and zero times that ends the synthesis, and
\* a residual frame of another type.
ReadyFrame == [type |-> "Ready"]
ErrorFrame == [type |-> "Error"]
AudioFrame(pcm) == [type |-> "Audio", pcm |-> pcm]
TextFrame(text, start_s, stop_s) ==
    [type |-> "Text", text |-> text, start_s |-> start_s, stop_s |-> stop_s]
EndFrame == TextFrame(<<>>, 0, 0)
ResidualFrame == [type |-> "Residual"]

\* A frame whose payload msgpack.unpackb raises on.
GarbageFrame == [type |-> "Garbage"]

\* The exception of the decoder leaves the task.
undecodable_raises(t) == [t EXCEPT !.rx = "raised"]

\* except Exception as e: print(...): msgpack.unpackb raised on the
\* payload; nothing else is done with the frame.
undecodable(t) == t

\* The loop goes on whatever the count.
message_limit_never(t, limit) == t

\* if message_count > 500: break (10000 in a recognition session), and
\* return True after the loop.
message_limit(t, limit) ==
    IF t.message_count > limit THEN [t EXCEPT !.rx = "true"] ELSE t

\* The session after websockets.connect: both tasks created.
tts_start(text, frames, flood) ==
    [pc |-> "run", text |-> text, stream |-> frames, flood |-> flood,
     inbox |-> frames, closed |-> "no",
     rx |-> "purge", purged |-> 0,
     ready_received |-> FALSE, start_sending |-> FALSE,
     tx |-> "waiting", next_word |-> 1, sent |-> <<>>,
     audio_pcm_chunks |-> <<>>, message_count |-> 0, result |-> "none"]

\* The remote of a flooding session sends its frames once more.
tts_remote_flood ==
    /\ tts.pc = "run"
    /\ tts.flood # <<>>
    /\ tts.inbox = <<>>
    /\ tts.closed = "no"
    /\ tts' = [tts EXCEPT !.inbox = tts.flood]
    /\ UNCHANGED <<chat_history, instructions, tools_enabled, tool_vars,
                   rechunk, sanitizer, stt, call>>

\* The remote closes the connection, normally or not.
tts_remote_close(how) ==
    /\ tts.pc = "run"
    /\ tts.closed = "no"
    /\ tts' = [tts EXCEPT !.closed = how]
    /\ UNCHANGED <<chat_history, instructions, tools_enabled, tool_vars,
                   rechunk, sanitizer, stt, call>>

\* The purge sets start_sending at its first frame, Ready or not.
purge_frame_arms_always(frame) ==
    IF frame.type = "Error"
    THEN [tts EXCEPT !.rx = "false", !.inbox = Tail(@)]
    ELSE [tts EXCEPT !.rx = "receive", !.inbox = Tail(@),
                     !.start_sending = TRUE]

\* One frame read by the purge: Ready sets both events and ends the purge,
\* Error makes the task return False, another frame is dropped; after
\* PURGE_FRAMES frames the purge is over, and so it is when the payload
\* does not decode (except Exception: break).
purge_frame(frame) ==
    IF frame.type = "Garbage"
    THEN [tts EXCEPT !.rx = "await_ready", !.inbox = Tail(@)]
    ELSE IF frame.type = "Ready"
    THEN [tts EXCEPT !.rx = "receive", !.inbox = Tail(@),
                     !.ready_received = TRUE, !.start_sending = TRUE]
    ELSE IF frame.type = "Error"
    THEN [tts EXCEPT !.rx = "false", !.inbox = Tail(@)]
    ELSE [tts EXCEPT !.inbox = Tail(@), !.purged = @ + 1,
                     !.rx = IF tts.purged + 1 = PURGE_FRAMES
                            THEN "await_ready" ELSE "purge"]

\* wait_ready_then_receive, the purge: websocket.recv() returns a frame
\* within the 0.5 s.
purge_recv ==
    /\ tts.pc = "run"
    /\ tts.rx = "purge"
    /\ tts.inbox # <<>>
    /\ tts' = purge_frame(Head(tts.inbox))
    /\ UNCHANGED <<chat_history, instructions, tools_enabled, tool_vars,
                   rechunk, sanitizer, stt, call>>

\* The purge: no frame within the 0.5 s (TimeoutError), or recv() raises
\* on the closed connection; either way the loop is left.
purge_timeout ==
    /\ tts.pc = "run"
    /\ tts.rx = "purge"
    /\ tts' = [tts EXCEPT !.rx = "await_ready"]
    /\ UNCHANGED <<chat_history, instructions, tools_enabled, tool_vars,
                   rechunk, sanitizer, stt, call>>

\* Ready is passed over like the frames of other types.
await_ready_frame_passes_ready(frame) ==
    IF frame.type = "Error"
    THEN [tts EXCEPT !.rx = "false", !.inbox = Tail(@)]
    ELSE [tts EXCEPT !.inbox = Tail(@)]

\* One frame read while waiting for Ready: Ready sets both events and ends
\* the wait, Error makes the task return False, other frames are passed.
await_ready_frame(frame) ==
    IF frame.type = "Garbage"
    THEN undecodable([tts EXCEPT !.inbox = Tail(@)])
    ELSE IF frame.type = "Ready"
    THEN [tts EXCEPT !.rx = "receive", !.inbox = Tail(@),
                     !.ready_received = TRUE, !.start_sending = TRUE]
    ELSE IF frame.type = "Error"
    THEN [tts EXCEPT !.rx = "false", !.inbox = Tail(@)]
    ELSE [tts EXCEPT !.inbox = Tail(@)]

\* if not ready_received.is_set(): async for response in websocket
await_ready_recv ==
    /\ tts.pc = "run"
    /\ tts.rx = "await_ready"
    /\ tts.inbox # <<>>
    /\ tts' = await_ready_frame(Head(tts.inbox))
    /\ UNCHANGED <<chat_history, instructions, tools_enabled, tool_vars,
                   rechunk, sanitizer, stt, call>>

\* The connection is closed and every frame read: the iteration ends after
\* a normal close, and the task goes on to its second loop; it raises
\* ConnectionClosedError after another.
await_ready_closed ==
    /\ tts.pc = "run"
    /\ tts.rx = "await_ready"
    /\ tts.inbox = <<>>
    /\ tts.closed # "no"
    /\ tts' = [tts EXCEPT !.rx = IF tts.closed = "ok" THEN "receive" ELSE "raised"]
    /\ UNCHANGED <<chat_history, instructions, tools_enabled, tool_vars,
                   rechunk, sanitizer, stt, call>>

\* The end signal is every Text frame without text.
is_end_signal_empty_text(frame) == frame.text = <<>>

\* if text_content == "" and start_s == 0 and stop_s == 0: break
is_end_signal(frame) ==
    frame.text = <<>> /\ frame.start_s = 0 /\ frame.stop_s = 0

\* The samples of the frame take the place of those held.
audio_after_replaced(chunks, frame) ==
    IF frame.pcm # <<>> THEN frame.pcm ELSE chunks

\* if pcm_data: audio_pcm_chunks.extend(pcm_data)
audio_after(chunks, frame) ==
    IF frame.pcm # <<>> THEN chunks \o frame.pcm ELSE chunks

\* The second loop on one frame: Error returns False, the end frame and
\* the message limit leave the loop (return True), Audio with samples is
\* accumulated, a payload that does not decode is only counted.
receive_recv ==
    /\ tts.pc = "run"
    /\ tts.rx = "receive"
    /\ tts.inbox # <<>>
    /\ LET frame == Head(tts.inbox)
           counted == [tts EXCEPT !.inbox = Tail(@), !.message_count = @ + 1]
           limited(t) == message_limit(t, MESSAGE_LIMIT)
       IN tts' = IF frame.type = "Garbage"
                 THEN limited(undecodable(counted))
                 ELSE IF frame.type = "Error"
                 THEN [counted EXCEPT !.rx = "false"]
                 ELSE IF frame.type = "Text"
                 THEN IF is_end_signal(frame)
                      THEN [counted EXCEPT !.rx = "true"]
                      ELSE limited(counted)
                 ELSE IF frame.type = "Audio"
                 THEN limited([counted EXCEPT
                                  !.audio_pcm_chunks = audio_after(@, frame)])
                 ELSE limited(counted)
    /\ UNCHANGED <<chat_history, instructions, tools_enabled, tool_vars,
                   rechunk, sanitizer, stt, call>>

\* The second loop on the closed connection.
receive_closed ==
    /\ tts.pc = "run"
    /\ tts.rx = "receive"
    /\ tts.inbox = <<>>
    /\ tts.closed # "no"
    /\ tts' = [tts EXCEPT !.rx = IF tts.closed = "ok" THEN "true" ELSE "raised"]
    /\ UNCHANGED <<chat_history, instructions, tools_enabled, tool_vars,
                   rechunk, sanitizer, stt, call>>

\* send_when_ready: await start_sending.wait() returns.
send_armed ==
    /\ tts.pc = "run"
    /\ tts.tx = "waiting"
    /\ tts.start_sending
    /\ tts' = [tts EXCEPT !.tx = "sending"]
    /\ UNCHANGED <<chat_history, instructions, tools_enabled, tool_vars,
                   rechunk, sanitizer, stt, call>>

\* The frames after Eos is put first.
frames_after_eos_first(sent, words, next_word) ==
    IF next_word = 1 THEN sent \o <<TTSClientEosMessage, TTSClientTextMessage(words[1])>>
    ELSE sent \o <<TTSClientTextMessage(words[next_word])>>

\* await websocket.send(...) of the next word.
frames_after_word(sent, words, next_word) ==
    Append(sent, TTSClientTextMessage(words[next_word]))

\* send_when_ready: the next word is sent as a Text frame; send raises once
\* the connection is closed.
send_word ==
    /\ tts.pc = "run"
    /\ tts.tx = "sending"
    /\ tts.next_word <= Len(split(tts.text))
    /\ tts' = IF tts.closed # "no"
              THEN [tts EXCEPT !.tx = "raised"]
              ELSE [tts EXCEPT !.sent = frames_after_word(@, split(tts.text), tts.next_word),
                               !.next_word = @ + 1]
    /\ UNCHANGED <<chat_history, instructions, tools_enabled, tool_vars,
                   rechunk, sanitizer, stt, call>>

\* send_when_ready: after the last word the Eos frame is sent.
send_eos ==
    /\ tts.pc = "run"
    /\ tts.tx = "sending"
    /\ tts.next_word > Len(split(tts.text))
    /\ tts' = IF tts.closed # "no"
              THEN [tts EXCEPT !.tx = "raised"]
              ELSE [tts EXCEPT !.sent = Append(@, TTSClientEosMessage), !.tx = "done"]
    /\ UNCHANGED <<chat_history, instructions, tools_enabled, tool_vars,
                   rechunk, sanitizer, stt, call>>

\* if audio_pcm_chunks: ... return True / else: return False
tts_result(t) == t.audio_pcm_chunks # <<>>

\* asyncio.gather returns once both tasks are finished, whatever they
\* returned or raised; the session returns and the connection is released.
tts_return ==
    /\ tts.pc = "run"
    /\ tts.rx \in {"true", "false", "raised"}
    /\ tts.tx \in {"done", "raised"}
    /\ tts' = [tts EXCEPT !.pc = "returned", !.result = tts_result(tts)]
    /\ UNCHANGED <<chat_history, instructions, tools_enabled, tool_vars,
                   rechunk, sanitizer, stt, call>>

(***************************************************************************)
(* stream_stt_transcription (src/interface_test/simple_stt_test.py): a     *)
(* recognition session over one websocket, run by two tasks, send_audio    *)
(* and receive_transcription, that asyncio.gather waits for.               *)
(*                                                                         *)
(* stt.n is len(audio_data), the samples of the input; a chunk of it is    *)
(* the samples start..stop-1 followed by pad zero samples.  stt.inbox      *)
(* holds the frames of the remote not yet read, stt.ready_printed is set   *)
(* where receive_transcription prints that the server is ready.            *)
(***************************************************************************)
SAMPLES_PER_FRAME == 1920

\* marker_message = {"type": "Marker", "id": 999}
MARKER_ID == 999

\* for i in range(25): the silence chunks sent after the marker.
SILENCE_CHUNKS == 25

\* if message_count > 10000: break
STT_MESSAGE_LIMIT == 10000

\* The chunk is sent as sliced, short when it is the last.
audio_chunk_unpadded(n, i) ==
    [start |-> i, pad |-> 0,
     stop |-> IF i + SAMPLES_PER_FRAME < n THEN i + SAMPLES_PER_FRAME ELSE n]

\* chunk = audio_data[i:i + SAMPLES_PER_FRAME], completed by np.pad with
\* zeros when shorter than SAMPLES_PER_FRAME.
audio_chunk(n, i) ==
    LET stop == IF i + SAMPLES_PER_FRAME < n THEN i + SAMPLES_PER_FRAME ELSE n
    IN [start |-> i, stop |-> stop,
        pad |-> IF stop - i < SAMPLES_PER_FRAME
                THEN SAMPLES_PER_FRAME - (stop - i) ELSE 0]

\* silence_chunk = np.zeros(SAMPLES_PER_FRAME)
silence_chunk == [start |-> 0, stop |-> 0, pad |-> SAMPLES_PER_FRAME]

\* The frames the client sends.
audio_message(pcm) == [type |-> "Audio", pcm |-> pcm]
marker_message == [type |-> "Marker", id |-> MARKER_ID]

\* The frames of the remote besides Ready and Error: a word, a step, and
\* a marker coming back.
WordFrame(text) == [type |-> "Word", text |-> text, start_time |-> 0]
StepFrame == [type |-> "Step"]
MarkerFrame(id) == [type |-> "Marker", id |-> id]

\* The session after websockets.connect: both tasks created.  stream is
\* what the remote sends, flood what it goes on sending after that, over
\* and over.
stt_start(n, frames, flood) ==
    [pc |-> "run", n |-> n, stream |-> frames, flood |-> flood,
     inbox |-> frames, closed |-> "no",
     rx |-> "receive", ready_printed |-> FALSE,
     tx |-> "sleeping", i |-> 0, silence |-> 0, sent |-> <<>>,
     transcription_words |-> <<>>, message_count |-> 0,
     result |-> "none", full_text |-> <<>>]

\* The remote of a flooding session sends its frames once more.
stt_remote_flood ==
    /\ stt.pc = "run"
    /\ stt.flood # <<>>
    /\ stt.inbox = <<>>
    /\ stt.closed = "no"
    /\ stt' = [stt EXCEPT !.inbox = stt.flood]
    /\ UNCHANGED <<chat_history, instructions, tools_enabled, tool_vars,
                   rechunk, sanitizer, tts, call>>

\* Every marker that comes back ends the transcription.
marker_ends_any(frame) == TRUE

\* if marker_id == 999: break
marker_ends(frame) == frame.id = MARKER_ID

\* The remote closes the connection, normally or not.
stt_remote_close(how) ==
    /\ stt.pc = "run"
    /\ stt.closed = "no"
    /\ stt' = [stt EXCEPT !.closed = how]
    /\ UNCHANGED <<chat_history, instructions, tools_enabled, tool_vars,
                   rechunk, sanitizer, tts, call>>

\* receive_transcription on one frame: Ready is printed, Word is appended,
\* the marker MARKER_ID leaves the loop (return True), Error returns False,
\* every other frame is passed; the message limit leaves the loop.
stt_recv ==
    /\ stt.pc = "run"
    /\ stt.rx = "receive"
    /\ stt.inbox # <<>>
    /\ LET frame == Head(stt.inbox)
           counted == [stt EXCEPT !.inbox = Tail(@), !.message_count = @ + 1]
           limited(t) == message_limit(t, STT_MESSAGE_LIMIT)
       IN stt' = IF frame.type = "Garbage"
                 THEN limited(undecodable(counted))
                 ELSE IF frame.type = "Ready"
                 THEN limited([counted EXCEPT !.ready_printed = TRUE])
                 ELSE IF frame.type = "Word"
                 THEN limited([counted EXCEPT
                                  !.transcription_words =
                                      Append(@, [word |-> frame.text,
                                                 start_time |-> frame.start_time])])
                 ELSE IF frame.type = "Marker"
                 THEN IF marker_ends(frame)
                      THEN [counted EXCEPT !.rx = "true"]
                      ELSE limited(counted)
                 ELSE IF frame.type = "Error"
                 THEN [counted EXCEPT !.rx = "false"]
                 ELSE limited(counted)
    /\ UNCHANGED <<chat_history, instructions, tools_enabled, tool_vars,
                   rechunk, sanitizer, tts, call>>

\* async for response in websocket, on the closed connection with every
\* frame read: the iteration ends after a normal close, it raises
\* ConnectionClosedError after another.
stt_closed ==
    /\ stt.pc = "run"
    /\ stt.rx = "receive"
    /\ stt.inbox = <<>>
    /\ stt.closed # "no"
    /\ stt' = [stt EXCEPT !.rx = IF stt.closed = "ok" THEN "true" ELSE "raised"]
    /\ UNCHANGED <<chat_history, instructions, tools_enabled, tool_vars,
                   rechunk, sanitizer, tts, call>>

\* send_audio: await asyncio.sleep(0.5) returns.
send_audio_wake ==
    /\ stt.pc = "run"
    /\ stt.tx = "sleeping"
    /\ stt' = [stt EXCEPT !.tx = "audio"]
    /\ UNCHANGED <<chat_history, instructions, tools_enabled, tool_vars,
                   rechunk, sanitizer, tts, call>>

\* for i in range(0, len(audio_data), SAMPLES_PER_FRAME): the next chunk
\* is sent as an Audio frame; send raises once the connection is closed.
send_audio_chunk ==
    /\ stt.pc = "run"
    /\ stt.tx = "audio"
    /\ stt.i < stt.n
    /\ stt' = IF stt.closed # "no"
              THEN [stt EXCEPT !.tx = "raised"]
              ELSE [stt EXCEPT !.sent = Append(@, audio_message(audio_chunk(stt.n, stt.i))),
                               !.i = @ + SAMPLES_PER_FRAME]
    /\ UNCHANGED <<chat_history, instructions, tools_enabled, tool_vars,
                   rechunk, sanitizer, tts, call>>

\* After the last chunk the marker is sent.
send_marker ==
    /\ stt.pc = "run"
    /\ stt.tx = "audio"
    /\ stt.i >= stt.n
    /\ stt' = IF stt.closed # "no"
              THEN [stt EXCEPT !.tx = "raised"]
              ELSE [stt EXCEPT !.sent = Append(@, marker_message), !.tx = "silence"]
    /\ UNCHANGED <<chat_history, instructions, tools_enabled, tool_vars,
                   rechunk, sanitizer, tts, call>>

\* for i in range(25): one silence chunk is sent; after the last the task
\* is finished.
send_silence ==
    /\ stt.pc = "run"
    /\ stt.tx = "silence"
    /\ stt' = IF stt.closed # "no"
              THEN [stt EXCEPT !.tx = "raised"]
              ELSE [stt EXCEPT !.sent = Append(@, audio_message(silence_chunk)),
                               !.silence = @ + 1,
                               !.tx = IF stt.silence + 1 = SILENCE_CHUNKS
                                      THEN "done" ELSE "silence"]
    /\ UNCHANGED <<chat_history, instructions, tools_enabled, tool_vars,
                   rechunk, sanitizer, tts, call>>

\* if transcription_words: ... return True / else: return False
stt_result(t) == t.transcription_words # <<>>

\* full_text = " ".join(word for word, _ in transcription_words)
RECURSIVE join_words(_)
join_words(words) ==
    IF words = <<>> THEN <<>>
    ELSE IF Len(words) = 1 THEN words[1].word
    ELSE words[1].word \o <<" ">> \o join_words(Tail(words))

\* asyncio.gather returns once both tasks are finished, whatever they
\* returned or raised; the session returns and the connection is released.
stt_return ==
    /\ stt.pc = "run"
    /\ stt.rx \in {"true", "false", "raised"}
    /\ stt.tx \in {"done", "raised"}
    /\ stt' = [stt EXCEPT !.pc = "returned", !.result = stt_result(stt),
                           !.full_text = IF stt_result(stt)
                                         THEN join_words(stt.transcription_words)
                                         ELSE <<>>]
    /\ UNCHANGED <<chat_history, instructions, tools_enabled, tool_vars,
                   rechunk, sanitizer, tts, call>>

(***************************************************************************)
(* The Chatbot and its callers                                             *)
(***************************************************************************)
Init ==
    /\ chat_history \in {<<Msg("system", p)>> : p \in Prompts}
    /\ instructions = "None"
    /\ tools_enabled = FALSE
    /\ tool_idle
    /\ rechunk = rechunk_off
    /\ streams_off
    /\ call = [op |-> "__init__"]

AddChatMessageDelta ==
    \E delta \in Deltas, role \in DeltaRoles :
        \E generating_message_i \in
               {NoIndex, Len(chat_history) - 1, Len(chat_history), Len(chat_history) + 1} :
            add_chat_message_delta(delta, role, generating_message_i)

LastMessage == \E role \in {"user", "assistant"} : last_message(role)

ToolCallsChunk == \E stream \in ToolsStreams : tool_calls_chunk(stream)

ToolExecuted ==
    \E outcome \in ToolOutcomes, stream \in ToolsStreams :
        tool_executed(outcome, stream)

Next ==
    \/ AddChatMessageDelta
    \/ SetInstructions
    \/ preprocessed_messages
    \/ ConversationState
    \/ get_system_prompt
    \/ LastMessage

Spec == Init /\ [][Next]_vars

(***************************************************************************)
(* The Chatbot with its tool loop running: the callers' deltas arrive      *)
(* while the generator is suspended.                                       *)
(***************************************************************************)
ToolsDeltas == {<<>>, <<"a">>}

ToolsAddDelta ==
    \E delta \in ToolsDeltas, role \in DeltaRoles :
        \E generating_message_i \in {NoIndex, 1, Len(chat_history) - 1} :
            add_chat_message_delta(delta, role, generating_message_i)

\* The callers pass the stream; chat_completion answers the first request.
ProcessOllamaWithTools ==
    \E stream \in IF tools_enabled THEN ToolsStreams ELSE {<<>>} :
        process_ollama_with_tools(stream)

NextTools ==
    \/ ToolsAddDelta
    \/ SetInstructions
    \/ preprocessed_messages
    \/ enable_tools
    \/ ProcessOllamaWithTools
    \/ plain_end
    \/ ToolCallsChunk
    \/ ToolExecuted
    \/ stream_end

SpecTools == Init /\ [][NextTools]_vars

(***************************************************************************)
(* The filter alone, as a function of an arbitrary list of messages:       *)
(* chat_history is the list passed in, as the parameter is named.          *)
(***************************************************************************)
(***************************************************************************)
(* conversation_state alone, as a function of an arbitrary history: any    *)
(* list of messages, the empty one and unknown roles included.             *)
(***************************************************************************)
HistoryRoles == {"system", "user", "assistant", "tool", "function"}

HistoryContents == {<<>>, <<" ">>, <<"\n", " ">>, <<"a">>, <<" ", "a">>}

HistoryMessages == {Msg(r, c) : r \in HistoryRoles, c \in HistoryContents}

RECURSIVE SeqsUpTo(_, _)
SeqsUpTo(S, n) ==
    IF n = 0 THEN {<<>>}
    ELSE LET shorter == SeqsUpTo(S, n - 1)
         IN shorter \cup {Append(q, x) : q \in shorter, x \in S}

InitHistory ==
    /\ chat_history \in SeqsUpTo(HistoryMessages, MaxInput - 1)
    /\ instructions = "None"
    /\ tools_enabled = FALSE
    /\ tool_idle
    /\ rechunk = rechunk_off
    /\ streams_off
    /\ call = [op |-> "input"]

NextHistory == ConversationState

SpecHistory == InitHistory /\ [][NextHistory]_vars

(***************************************************************************)
(* process_ollama_with_tools alone, answered by arbitrary streams: content *)
(* before and after a batch, batches of zero to two calls, calls that are  *)
(* unknown, malformed or failing.                                          *)
(***************************************************************************)
LoopBatches ==
    {<<>>, <<call_time>>, <<call_missing, call_time>>, <<call_bad_json, call_missing>>}

\* Up to MaxChunks deltas, alternately "a" and "b".
Words(k) == [i \in 1..k |-> IF i % 2 = 1 THEN <<"a">> ELSE <<"b">>]

\* How a stream ends after its leading content chunks: at once, on a chunk
\* of another type, or on a batch of tool calls, which content may follow.
LoopTails ==
    {<<>>, <<done_chunk>>}
        \cup {<<tool_calls_of(b)>> \o post :
                  b \in LoopBatches, post \in {<<>>, <<content_of(<<"b">>)>>}}

LoopStreams ==
    {[i \in 1..k |-> content_of(Words(k)[i])] \o tail :
        k \in 0..MaxChunks, tail \in LoopTails}

\* The deltas of chat_completion(messages), tools disabled.
PlainStreams == {Words(k) : k \in 0..MaxChunks}

LoopHistories ==
    {<<Msg("system", <<"P">>)>>,
     <<Msg("system", <<"P">>), Msg("user", <<"a">>)>>}

InitLoop ==
    /\ chat_history \in LoopHistories
    /\ instructions = "None"
    /\ tools_enabled \in BOOLEAN
    /\ tool_idle
    /\ rechunk = rechunk_off
    /\ streams_off
    /\ call = [op |-> "input"]

LoopProcess ==
    \E stream \in IF tools_enabled THEN LoopStreams ELSE PlainStreams :
        process_ollama_with_tools(stream)

LoopToolCallsChunk == \E stream \in LoopStreams : tool_calls_chunk(stream)

LoopToolExecuted ==
    \E outcome \in ToolOutcomes, stream \in LoopStreams :
        tool_executed(outcome, stream)

NextLoop ==
    \/ LoopProcess
    \/ plain_delta
    \/ plain_end
    \/ content_chunk
    \/ other_chunk
    \/ LoopToolCallsChunk
    \/ LoopToolExecuted
    \/ stream_end

SpecLoop == InitLoop /\ [][NextLoop]_vars

(***************************************************************************)
(* rechunk_to_words alone, fed every text up to MaxRechunkText characters  *)
(* and the docstring's "foo bar baz", cut into deltas in every way.        *)
(***************************************************************************)
FOO_BAR_BAZ == <<"f", "o", "o", " ", "b", "a", "r", " ", "b", "a", "z">>

RechunkChars == {"a", " ", "\n"}

RechunkTexts == SeqsUpTo(RechunkChars, MaxRechunkText) \cup {FOO_BAR_BAZ}

\* The ways of cutting a text into non-empty deltas.
RECURSIVE Splits(_)
Splits(text) ==
    IF text = <<>> THEN {<<>>}
    ELSE UNION {{<<SubSeq(text, 1, k)>> \o rest :
                    rest \in Splits(SubSeq(text, k + 1, Len(text)))} :
                k \in 1..Len(text)}

InitRechunk ==
    /\ chat_history = <<Msg("system", <<"P">>)>>
    /\ instructions = "None"
    /\ tools_enabled = FALSE
    /\ tool_idle
    /\ streams_off
    /\ rechunk \in UNION {{rechunk_start(text, deltas) : deltas \in Splits(text)} :
                              text \in RechunkTexts}
    /\ call = [op |-> "input"]

NextRechunk ==
    \/ rechunk_delta
    \/ rechunk_end

SpecRechunk == InitRechunk /\ [][NextRechunk]_vars

(***************************************************************************)
(* The sanitizer alone, fed every text up to MaxSanitizerText code points  *)
(* over letters, brackets and emoji, cut into tokens in every way.         *)
(***************************************************************************)
\* a ( ) ], the emoji U+1F600 (grinning face) and U+1F914 (thinking face),
\* and the ideograph U+4E2D.
LETTER_A == 97
PAREN_OPEN == 40
PAREN_CLOSE == 41
SQUARE_CLOSE == 93
GRINNING_FACE == 128512
THINKING_FACE == 129300
IDEOGRAPH_MIDDLE == 20013

SanitizerChars ==
    {LETTER_A, PAREN_OPEN, PAREN_CLOSE, SQUARE_CLOSE,
     GRINNING_FACE, THINKING_FACE, IDEOGRAPH_MIDDLE}

SanitizerTexts == SeqsUpTo(SanitizerChars, MaxSanitizerText)

InitSanitizer ==
    /\ chat_history = <<Msg("system", <<"P">>)>>
    /\ instructions = "None"
    /\ tools_enabled = FALSE
    /\ tool_idle
    /\ rechunk = rechunk_off
    /\ sanitizer \in UNION {{sanitizer_start(text, tokens) : tokens \in Splits(text)} :
                                text \in SanitizerTexts}
    /\ tts = [pc |-> "off"]
    /\ stt = [pc |-> "off"]
    /\ call = [op |-> "input"]

NextSanitizer ==
    \/ ollama_content
    \/ ollama_end

SpecSanitizer == InitSanitizer /\ [][NextSanitizer]_vars

(***************************************************************************)
(* A synthesis session alone: a two-word text against the streams of the   *)
(* remote (a handshake after residual frames, and up to MaxTtsFrames       *)
(* frames after Ready), and every text up to MaxTtsText characters against *)
(* a remote that is ready.                                                 *)
(***************************************************************************)
Residuals(k) == [i \in 1..k |-> ResidualFrame]

\* What the purge and the wait for Ready can meet.
TtsHandshakes ==
    {Residuals(k) \o tail :
        k \in {0, PURGE_FRAMES - 1, PURGE_FRAMES},
        tail \in SeqsUpTo({ReadyFrame, ErrorFrame, GarbageFrame,
                           AudioFrame(<<1>>), EndFrame}, MaxTtsFrames)}

\* What the receiving loop can meet.
TtsSyntheses ==
    {<<ReadyFrame>> \o tail :
        tail \in SeqsUpTo({ErrorFrame, AudioFrame(<<1>>), AudioFrame(<<2>>),
                           EndFrame, GarbageFrame, TextFrame(<<"a">>, 0, 0),
                           TextFrame(<<>>, 0, 1)}, MaxTtsFrames)}

\* Samples between frames of every other kind, and samples after the end.
TTS_SYNTHESIS ==
    <<ReadyFrame, AudioFrame(<<1>>), GarbageFrame, TextFrame(<<"a">>, 0, 1),
      AudioFrame(<<>>), ResidualFrame, TextFrame(<<>>, 1, 0),
      AudioFrame(<<2, 3>>), EndFrame, AudioFrame(<<1>>)>>

TtsStreams == TtsHandshakes \cup TtsSyntheses \cup {TTS_SYNTHESIS}

TtsTexts == SeqsUpTo({"a", " "}, MaxTtsText)

TWO_WORDS == <<"a", " ", "b">>

InitTts ==
    /\ chat_history = <<Msg("system", <<"P">>)>>
    /\ instructions = "None"
    /\ tools_enabled = FALSE
    /\ tool_idle
    /\ rechunk = rechunk_off
    /\ sanitizer = [pc |-> "off"]
    /\ tts \in {tts_start(TWO_WORDS, frames, <<>>) : frames \in TtsStreams}
                  \cup {tts_start(text, <<ReadyFrame, AudioFrame(<<1>>)>>, <<>>) :
                            text \in TtsTexts}
    /\ stt = [pc |-> "off"]
    /\ call = [op |-> "input"]

TtsRemoteClose == \E how \in {"ok", "error"} : tts_remote_close(how)

\* The steps of wait_ready_then_receive.
TtsReceiver ==
    \/ purge_recv
    \/ purge_timeout
    \/ await_ready_recv
    \/ await_ready_closed
    \/ receive_recv
    \/ receive_closed

\* The steps of send_when_ready.
TtsSender ==
    \/ send_armed
    \/ send_word
    \/ send_eos

NextTts ==
    \/ TtsRemoteClose
    \/ purge_recv
    \/ purge_timeout
    \/ await_ready_recv
    \/ await_ready_closed
    \/ receive_recv
    \/ receive_closed
    \/ send_armed
    \/ send_word
    \/ send_eos
    \/ tts_return

SpecTts == InitTts /\ [][NextTts]_vars

\* The event loop runs every task that can run, and gather returns when it
\* can; the remote is under no obligation.
SpecTtsFair ==
    /\ InitTts
    /\ [][NextTts]_vars
    /\ WF_vars(TtsReceiver)
    /\ WF_vars(TtsSender)
    /\ WF_vars(tts_return)

(***************************************************************************)
(* A recognition session alone: a one-sample input against every stream    *)
(* of the remote up to MaxSttFrames frames, and every input length up to   *)
(* MaxSttChunks chunks against a remote that answers with a word.          *)
(***************************************************************************)
SttStreams ==
    SeqsUpTo({ReadyFrame, ErrorFrame, WordFrame(<<"a">>), WordFrame(<<"b">>),
              MarkerFrame(MARKER_ID), MarkerFrame(1), GarbageFrame},
             MaxSttFrames)

\* A transcription of two words between frames of every other kind, and a
\* word after the marker.
STT_TRANSCRIPTION ==
    <<ReadyFrame, WordFrame(<<"a">>), GarbageFrame, MarkerFrame(1),
      WordFrame(<<"b">>), StepFrame, MarkerFrame(MARKER_ID), WordFrame(<<"a">>)>>

\* Whole chunks, and whole chunks with one sample more or one sample less.
AudioLengths ==
    {k * SAMPLES_PER_FRAME + d :
        k \in 0..(MaxSttChunks - 1), d \in {0, 1, SAMPLES_PER_FRAME - 1}}
        \cup {MaxSttChunks * SAMPLES_PER_FRAME}

InitStt ==
    /\ chat_history = <<Msg("system", <<"P">>)>>
    /\ instructions = "None"
    /\ tools_enabled = FALSE
    /\ tool_idle
    /\ rechunk = rechunk_off
    /\ sanitizer = [pc |-> "off"]
    /\ tts = [pc |-> "off"]
    /\ stt \in {stt_start(1, frames, <<>>) : frames \in SttStreams}
                  \cup {stt_start(n, STT_TRANSCRIPTION, <<>>) : n \in AudioLengths}
    /\ call = [op |-> "input"]

SttRemoteClose == \E how \in {"ok", "error"} : stt_remote_close(how)

NextStt ==
    \/ SttRemoteClose
    \/ stt_recv
    \/ stt_closed
    \/ send_audio_wake
    \/ send_audio_chunk
    \/ send_marker
    \/ send_silence
    \/ stt_return

SpecStt == InitStt /\ [][NextStt]_vars

(***************************************************************************)
(* A session of either kind: the synthesis sessions and the recognition    *)
(* sessions above, one of them in a behaviour.                             *)
(***************************************************************************)
InitSessions ==
    /\ chat_history = <<Msg("system", <<"P">>)>>
    /\ instructions = "None"
    /\ tools_enabled = FALSE
    /\ tool_idle
    /\ rechunk = rechunk_off
    /\ sanitizer = [pc |-> "off"]
    /\ \/ /\ tts \in {tts_start(TWO_WORDS, frames, <<>>) : frames \in TtsStreams}
          /\ stt = [pc |-> "off"]
       \/ /\ tts = [pc |-> "off"]
          /\ stt \in {stt_start(1, frames, <<>>) : frames \in SttStreams}
                        \cup {stt_start(1, STT_TRANSCRIPTION, <<>>)}
    /\ call = [op |-> "input"]

NextSessions ==
    \/ TtsRemoteClose
    \/ purge_recv
    \/ purge_timeout
    \/ await_ready_recv
    \/ await_ready_closed
    \/ receive_recv
    \/ receive_closed
    \/ send_armed
    \/ send_word
    \/ send_eos
    \/ tts_return
    \/ SttRemoteClose
    \/ stt_recv
    \/ stt_closed
    \/ send_audio_wake
    \/ send_audio_chunk
    \/ send_marker
    \/ send_silence
    \/ stt_return

SpecSessions == InitSessions /\ [][NextSessions]_vars

(***************************************************************************)
(* A session of either kind against a remote that is ready and then goes   *)
(* on sending frames, none of which ends the session, without closing.     *)
(***************************************************************************)
TTS_FLOOD == <<AudioFrame(<<1>>), GarbageFrame>>

STT_FLOOD == <<GarbageFrame>>

InitFlood ==
    /\ chat_history = <<Msg("system", <<"P">>)>>
    /\ instructions = "None"
    /\ tools_enabled = FALSE
    /\ tool_idle
    /\ rechunk = rechunk_off
    /\ sanitizer = [pc |-> "off"]
    /\ \/ /\ tts = tts_start(<<"a">>, <<ReadyFrame>>, TTS_FLOOD)
          /\ stt = [pc |-> "off"]
       \/ /\ tts = [pc |-> "off"]
          /\ stt = stt_start(1, <<ReadyFrame>>, STT_FLOOD)
    /\ call = [op |-> "input"]

NextFlood ==
    \/ tts_remote_flood
    \/ purge_recv
    \/ purge_timeout
    \/ await_ready_recv
    \/ receive_recv
    \/ send_armed
    \/ send_word
    \/ send_eos
    \/ tts_return
    \/ stt_remote_flood
    \/ stt_recv
    \/ send_audio_wake
    \/ send_audio_chunk
    \/ send_marker
    \/ send_silence
    \/ stt_return

SpecFlood == InitFlood /\ [][NextFlood]_vars

(***************************************************************************)
(* chat_completion of either LLM stream on the chunks of a backend: up to  *)
(* MaxStreamChunks contents, empty ones and ones of emoji alone among      *)
(* them.                                                                   *)
(***************************************************************************)
StreamContents ==
    {<<>>, <<LETTER_A>>, <<GRINNING_FACE>>, <<LETTER_A, GRINNING_FACE>>}

InitStreams ==
    /\ chat_history = <<Msg("system", <<"P">>)>>
    /\ instructions = "None"
    /\ tools_enabled = FALSE
    /\ tool_idle
    /\ rechunk = rechunk_off
    /\ sanitizer \in {chat_completion_start(impl, <<>>, chunks) :
                          impl \in {"OllamaStream", "VLLMStream"},
                          chunks \in SeqsUpTo(StreamContents, MaxStreamChunks)}
    /\ tts = [pc |-> "off"]
    /\ stt = [pc |-> "off"]
    /\ call = [op |-> "input"]

NextStreams ==
    \/ ollama_content
    \/ vllm_content
    \/ ollama_end

SpecStreams == InitStreams /\ [][NextStreams]_vars

FilterRoles == {"system", "user", "assistant", "tool"}

FilterContents ==
    {<<>>, <<INTERRUPTION_CHAR>>, <<"a">>, USER_SILENCE_MARKER,
     USER_SILENCE_MARKER \o <<"a">>}

FilterMessages == {Msg(r, c) : r \in FilterRoles, c \in FilterContents}

InitFilter ==
    /\ chat_history \in SeqsUpTo(FilterMessages, MaxInput)
    /\ instructions = "None"
    /\ tools_enabled = FALSE
    /\ tool_idle
    /\ rechunk = rechunk_off
    /\ streams_off
    /\ call = [op |-> "input"]

FilterCall ==
    /\ call.op = "input"
    /\ chat_history' = preprocess_messages_for_llm(chat_history).messages
    /\ call' = [op |-> "preprocess_messages_for_llm", before |-> chat_history,
                ret |-> preprocess_messages_for_llm(chat_history).output]
    /\ UNCHANGED <<instructions, tools_enabled, tool_vars, rechunk, stream_vars>>

NextFilter == FilterCall

SpecFilter == InitFilter /\ [][NextFilter]_vars

(***************************************************************************)
(* Properties                                                              *)
(***************************************************************************)
Whitespace == {" ", "\n"}

IsBlank(text) == \A k \in 1..Len(text) : text[k] \in Whitespace

LastOf(history) == history[Len(history)]

\* The state the rule of the specification gives a history.
RuleState(history) ==
    IF history = <<>> THEN "waiting_for_user"
    ELSE CASE LastOf(history).role \in {"system", "tool"} -> "waiting_for_user"
           [] LastOf(history).role = "assistant" -> "bot_speaking"
           [] LastOf(history).role = "user" ->
                  IF IsBlank(LastOf(history).content) THEN "waiting_for_user"
                  ELSE "user_speaking"
           [] OTHER -> "RuntimeError"

\* C1: conversation_state() is the rule's function of the last message:
\* waiting_for_user on an empty history and after a system or tool message,
\* bot_speaking after an assistant message whatever its content, user_speaking
\* after a user message with non-blank content and waiting_for_user after a
\* blank one; any other role raises RuntimeError.
C1_StateFromLastMessage ==
    /\ conversation_state(chat_history) = RuleState(chat_history)
    /\ call.op = "conversation_state" =>
           /\ call.ret = RuleState(call.before)
           /\ chat_history = call.before

\* conversation_state() was called on an empty assistant message that
\* follows a user message.
C1_Witness ==
    /\ call.op = "conversation_state"
    /\ Len(call.before) = 2
    /\ call.before[1] = Msg("user", <<"a">>)
    /\ call.before[2] = Msg("assistant", <<>>)
    /\ call.ret = "bot_speaking"

IsDelta == call.op = "add_chat_message_delta"

\* The call supplied an index.
IndexSupplied == call.generating_message_i # NoIndex

\* The call came through the guard of add_chat_message_delta.
Accepted ==
    ~IndexSupplied \/ Len(call.before) <= call.generating_message_i

\* C2: a call whose supplied index differs from the length of the history,
\* whether smaller or larger, returns False and leaves the history unchanged.
C2_MismatchRejected ==
    (IsDelta /\ IndexSupplied /\ call.generating_message_i # Len(call.before)) =>
        (call.ret = FALSE /\ chat_history = call.before)

\* The text a same-role delta leaves in the last message.
Joined(old, delta) ==
    IF /\ old # <<>>
       /\ old[Len(old)] \notin Whitespace
       /\ delta # <<>>
       /\ delta[1] \notin Whitespace
    THEN old \o <<" ">> \o delta
    ELSE old \o delta

SameRole == call.before # <<>> /\ LastOf(call.before).role = call.role

\* C3: an accepted delta of the last message's role leaves the length and
\* every earlier message unchanged and sets the last content to old + " " +
\* delta when old is non-empty and ends in no whitespace and delta is
\* non-empty and starts with none, to old + delta otherwise.
C3_SameRoleConcatenates ==
    (IsDelta /\ Accepted /\ SameRole) =>
        /\ Len(chat_history) = Len(call.before)
        /\ \A k \in 1..(Len(chat_history) - 1) : chat_history[k] = call.before[k]
        /\ LastOf(chat_history) =
               [LastOf(call.before) EXCEPT
                   !.content = Joined(LastOf(call.before).content, call.delta)]

\* "a" was added to a user message "a " and to a user message "a".
C3_Witness ==
    /\ IsDelta /\ Accepted /\ SameRole
    /\ call.delta = <<"a">>
    /\ LastOf(call.before).content \in {<<"a">>, <<"a", " ">>}
    /\ LastOf(chat_history).content = <<"a", " ", "a">>

\* C4 as stated: True exactly for an accepted call that finds no message of
\* its role at the end, or finds one with empty content and brings non-empty
\* text.
C4_TrueIffFirstText ==
    IsDelta =>
        (call.ret = TRUE <=>
            /\ Accepted
            /\ \/ ~SameRole
               \/ LastOf(call.before).content = <<>> /\ call.delta # <<>>)

\* C4 amended: True exactly for an accepted call that finds no message of
\* its role at the end, or finds one with empty content, whatever the delta.
C4_TrueIffNewOrEmptyLast ==
    IsDelta =>
        (call.ret = TRUE <=>
            /\ Accepted
            /\ \/ ~SameRole
               \/ LastOf(call.before).content = <<>>)

\* An empty delta on an empty last message of the same role returned True.
C4_Witness ==
    /\ IsDelta /\ Accepted /\ SameRole
    /\ LastOf(call.before).content = <<>>
    /\ call.delta = <<>>
    /\ call.ret = TRUE

\* C5: an accepted delta of another role than the last message's appends
\* the one message {role, content = delta}: one message more, the earlier
\* ones unchanged, no space put into delta.
C5_OtherRoleAppends ==
    (IsDelta /\ Accepted /\ ~SameRole) =>
        /\ Len(chat_history) = Len(call.before) + 1
        /\ \A k \in 1..Len(call.before) : chat_history[k] = call.before[k]
        /\ LastOf(chat_history) = Msg(call.role, call.delta)

\* An assistant delta "a" was appended after a user message ending in "a".
C5_Witness ==
    /\ IsDelta /\ Accepted /\ ~SameRole
    /\ Len(call.before) = 2
    /\ LastOf(call.before) = Msg("user", <<"a">>)
    /\ LastOf(chat_history) = Msg("assistant", <<"a">>)

\* C6: whatever add_chat_message_delta, set_instructions,
\* preprocessed_messages and process_ollama_with_tools have done, the history
\* is non-empty and its first message has role system.
C6_FirstMessageIsSystem ==
    /\ chat_history # <<>>
    /\ chat_history[1].role = "system"

\* The tool loop has appended a tool message to a history that a delta had
\* extended, and the system prompt has been replaced.
C6_Witness ==
    /\ instructions # "None"
    /\ Len(chat_history) >= 4
    /\ chat_history[2].role = "user"
    /\ LastOf(chat_history).role = "tool"
    /\ t_pc = "stream"
    /\ t_round = 2

\* C7: preprocessed_messages(), conversation_state(), last_message() and
\* get_system_prompt() leave every message of the history as they found it.
C7_ReadersLeaveHistory ==
    call.op \in {"preprocessed_messages", "conversation_state",
                 "last_message", "get_system_prompt"} =>
        chat_history = call.before

\* C8: set_instructions invokes make_system_prompt once and replaces message
\* 0, and nothing else, by a system message holding the result; with more
\* than one message conversation_state() is what it was.
C8_SetInstructionsReplacesFirst ==
    call.op = "set_instructions" =>
        /\ Len(call.prompts) = 1
        /\ Len(chat_history) = Len(call.before)
        /\ chat_history[1] = Msg("system", call.prompts[1])
        /\ \A k \in 2..Len(chat_history) : chat_history[k] = call.before[k]
        /\ Len(call.before) > 1 =>
               conversation_state(chat_history) = conversation_state(call.before)

\* set_instructions changed the prompt of a history of three messages.
C8_Witness ==
    /\ call.op = "set_instructions"
    /\ Len(call.before) = 3
    /\ chat_history[1].content # call.before[1].content
    /\ conversation_state(chat_history) = "bot_speaking"

\* C9: preprocessed_messages() filters the history itself only when it has
\* more than 2 messages; with 1 or 2 it filters [history[0], {user,
\* "Hello!"}], whatever the second message of the history holds.
C9_ViewFromHistoryAboveTwo ==
    call.op = "preprocessed_messages" =>
        call.ret =
            IF Len(call.before) > 2
            THEN preprocess_messages_for_llm(call.before).output
            ELSE preprocess_messages_for_llm(
                     <<call.before[1], Msg("user", HELLO_BANG)>>).output

\* The view of a history [system, user "a"] is [system, user "Hello!"].
C9_Witness ==
    /\ call.op = "preprocessed_messages"
    /\ Len(call.before) = 2
    /\ call.before[2] = Msg("user", <<"a">>)
    /\ call.ret = <<call.before[1], Msg("user", HELLO_BANG)>>

IsFilter == call.op = "preprocess_messages_for_llm"

\* The content is empty once the interruption characters are removed.
OnlyInterruptions(text) == \A k \in 1..Len(text) : text[k] = INTERRUPTION_CHAR

\* The contents of the messages, joined by single spaces.
RECURSIVE JoinContents(_)
JoinContents(messages) ==
    IF messages = <<>> THEN <<>>
    ELSE IF Len(messages) = 1 THEN messages[1].content
    ELSE messages[1].content \o <<" ">> \o JoinContents(Tail(messages))

OfRole(messages, role) == SelectSeq(messages, LAMBDA m : m.role = role)

\* The messages of the input the filter has to keep.
Kept(messages) == SelectSeq(messages, LAMBDA m : ~OnlyInterruptions(m.content))

\* The output without the dummy user message.
FromInput(output) == SelectSeq(output, LAMBDA m : m.content # HELLO_DOT)

\* C10: the output holds the contents of exactly the messages whose content
\* is not empty once the interruption characters are removed, in their
\* order, role by role and over all roles.
C10_DropsExactlyEmptied ==
    IsFilter =>
        /\ JoinContents(FromInput(call.ret)) = JoinContents(Kept(call.before))
        /\ \A role \in FilterRoles :
               JoinContents(OfRole(FromInput(call.ret), role))
                   = JoinContents(OfRole(Kept(call.before), role))
        /\ Len(FromInput(call.ret)) <= Len(Kept(call.before))
        /\ Kept(call.before) # <<>> => call.ret # <<>>

\* The filter dropped an empty message and one of interruption characters
\* and kept the message between them.
C10_Witness ==
    /\ IsFilter
    /\ Len(call.before) = 3
    /\ call.before[1].content = <<>>
    /\ call.before[2] = Msg("assistant", <<"a">>)
    /\ call.before[3].content = <<INTERRUPTION_CHAR>>
    /\ call.ret = <<Msg("assistant", <<"a">>)>>

\* The positions of the kept messages at which a run of one role starts.
RunStarts(kept) ==
    {i \in 1..Len(kept) : i = 1 \/ kept[i].role # kept[i - 1].role}

\* The start of the j-th run and its end.
RunStart(kept, j) ==
    CHOOSE s \in RunStarts(kept) :
        Cardinality({t \in RunStarts(kept) : t < s}) = j - 1

RunEnd(kept, j) ==
    IF j = Cardinality(RunStarts(kept)) THEN Len(kept)
    ELSE RunStart(kept, j + 1) - 1

\* One message for each maximal run of one role: the first message of the
\* run, its content replaced by the run's contents joined by single spaces.
RunsMerged(kept) ==
    [j \in 1..Cardinality(RunStarts(kept)) |->
        [kept[RunStart(kept, j)] EXCEPT
            !.content = JoinContents(SubSeq(kept, RunStart(kept, j), RunEnd(kept, j)))]]

NoAdjacentSameRole(messages) ==
    \A k \in 1..(Len(messages) - 1) : messages[k].role # messages[k + 1].role

\* C11: no two adjacent messages of the output have the same role, and the
\* output, the dummy message apart, holds one message for each maximal run
\* of same-role messages left adjacent by the dropping, with the run's
\* contents in order joined by single spaces.
C11_RunsMergedNoAdjacentRole ==
    IsFilter =>
        /\ NoAdjacentSameRole(call.ret)
        /\ FromInput(call.ret) = RunsMerged(Kept(call.before))

\* Two user messages that the dropping of the message between them made
\* adjacent came out as one.
C11_Witness ==
    /\ IsFilter
    /\ call.before = <<Msg("user", <<"a">>), Msg("user", <<INTERRUPTION_CHAR>>),
                       Msg("user", USER_SILENCE_MARKER)>>
    /\ call.ret = <<Msg("user", <<"a", " ">> \o USER_SILENCE_MARKER)>>

\* After dropping and merging the first message is system and the second is
\* an assistant message or missing.
NeedsHello(merged) ==
    /\ merged # <<>>
    /\ merged[1].role = "system"
    /\ Len(merged) = 1 \/ merged[2].role = "assistant"

\* C12: when, after dropping and merging, the first message is system and
\* the second is assistant or absent, {user, "Hello."} is inserted at index
\* 1; in every other case the output is the merged list; so a leading system
\* message is never directly followed by an assistant message.
C12_HelloAfterLeadingSystem ==
    IsFilter =>
        LET merged == RunsMerged(Kept(call.before)) IN
        /\ call.ret =
               IF NeedsHello(merged)
               THEN <<merged[1], Msg("user", HELLO_DOT)>> \o Tail(merged)
               ELSE merged
        /\ (Len(call.ret) >= 2 /\ call.ret[1].role = "system") =>
               call.ret[2].role # "assistant"

\* A system message alone, the messages after it dropped, got the dummy
\* user message.
C12_Witness ==
    /\ IsFilter
    /\ Len(call.before) = 2
    /\ call.before[1] = Msg("system", <<"a">>)
    /\ call.before[2] = Msg("assistant", <<>>)
    /\ call.ret = <<Msg("system", <<"a">>), Msg("user", HELLO_DOT)>>

\* The user message starts with the silence marker and holds more.
MarkerPrefixed(m) ==
    /\ m.role = "user"
    /\ Len(m.content) > Len(USER_SILENCE_MARKER)
    /\ SubSeq(m.content, 1, Len(USER_SILENCE_MARKER)) = USER_SILENCE_MARKER

WithoutMarker(m) ==
    IF MarkerPrefixed(m)
    THEN [m EXCEPT !.content = SubSeq(@, Len(USER_SILENCE_MARKER) + 1, Len(@))]
    ELSE m

WithoutMarkers(messages) ==
    [k \in 1..Len(messages) |-> WithoutMarker(messages[k])]

\* The filter's list for an input, the marker apart.
Filtered(messages) ==
    LET merged == RunsMerged(Kept(messages)) IN
    IF NeedsHello(merged)
    THEN <<merged[1], Msg("user", HELLO_DOT)>> \o Tail(merged)
    ELSE merged

\* C13: the list returned carries the user messages that start with the
\* silence marker and hold more without the marker, whether the marker is
\* taken off the messages before they are merged or off the merged ones; a
\* user message that is exactly the marker is returned as it is.
C13_OutputWithoutMarker ==
    IsFilter =>
        \/ call.ret = Filtered(WithoutMarkers(call.before))
        \/ call.ret = WithoutMarkers(Filtered(call.before))

(***************************************************************************)
(* Properties of the tool loop                                             *)
(***************************************************************************)
\* C14: with tools enabled a run of process_ollama_with_tools issues fewer
\* completion requests than a round cap, whatever the model answers.  The
\* code holds no cap of its own; the cap stated here is the number of
\* rounds the model follows.
C14_RequestsBelowCap == t_round < MaxRounds

IsExecuted == call.op = "execute_tool" /\ ~call.raised

HasToolCalls(m) == "tool_calls" \in DOMAIN m

\* The id a tool call carries, "unknown" standing for a call without one.
CallId(tool_call) == IF "id" \in DOMAIN tool_call THEN tool_call.id ELSE "unknown"

\* The tool messages that follow the assistant message at p answer its
\* calls in their order.
AnsweredInOrder(history, p) ==
    \A k \in 1..Len(history[p].tool_calls) :
        p + k <= Len(history) =>
            /\ history[p + k].role = "tool"
            /\ history[p + k].tool_call_id = CallId(history[p].tool_calls[k])

\* C15: the tool loop appends, for an executed call, one tool message whose
\* tool_call_id is the id of that call and whose content is what execute_tool
\* returned for it; the tool messages of a batch follow its assistant message
\* in the order of its calls.
C15_ToolMessageCarriesCallId ==
    /\ IsExecuted =>
           /\ Len(chat_history) = Len(call.before) + 1
           /\ LastOf(chat_history).role = "tool"
           /\ LastOf(chat_history).tool_call_id = CallId(call.tool_call)
           /\ LastOf(chat_history).content = call.ret
           /\ call.ret = execute_tool(call.tool_call, call.outcome).text
    /\ \A p \in 1..Len(chat_history) :
           HasToolCalls(chat_history[p]) => AnsweredInOrder(chat_history, p)

\* The batch [missing (c2), get_current_time (c1)] has been executed: the
\* history ends with the tool messages of c2 and of c1, in that order.
C15_Witness ==
    /\ IsExecuted /\ call.last
    /\ call.tool_call = call_time
    /\ Len(chat_history) >= 4
    /\ chat_history[Len(chat_history) - 1].role = "tool"
    /\ chat_history[Len(chat_history) - 1].tool_call_id = "c2"
    /\ LastOf(chat_history).tool_call_id = "c1"
    /\ HasToolCalls(chat_history[Len(chat_history) - 2])

CountWhere(history, Test(_)) ==
    Cardinality({k \in 1..Len(history) : Test(history[k])})

RECURSIVE CallsRequested(_)
CallsRequested(history) ==
    IF history = <<>> THEN 0
    ELSE (IF HasToolCalls(Head(history)) THEN Len(Head(history).tool_calls) ELSE 0)
             + CallsRequested(Tail(history))

IsToolMessage(m) == m.role = "tool"

BatchInProgress == t_pc = "exec"

\* C16 as stated: once a batch is executed the history holds as many
\* assistant messages carrying tool calls as tool messages, one of each for
\* every call.
C16_AssistantPerCall ==
    ~BatchInProgress =>
        CountWhere(chat_history, HasToolCalls) = CountWhere(chat_history, IsToolMessage)

\* C16: a batch of n tool calls adds one assistant message with empty
\* content carrying the n descriptors, and then one tool message for each
\* call carrying the text execute_tool returned: 1 assistant message and n
\* tool messages.
C16_OneAssistantPerBatch ==
    /\ call.op = "tool_calls" =>
           /\ Len(chat_history) = Len(call.before) + 1
           /\ LastOf(chat_history).role = "assistant"
           /\ LastOf(chat_history).content = <<>>
           /\ LastOf(chat_history).tool_calls = call.tool_calls
    /\ IsExecuted =>
           /\ Len(chat_history) = Len(call.before) + 1
           /\ LastOf(chat_history).role = "tool"
           /\ LastOf(chat_history).content = call.ret
    /\ ~BatchInProgress =>
           CountWhere(chat_history, IsToolMessage) = CallsRequested(chat_history)

\* A batch of two calls has been executed: one assistant message carrying
\* both descriptors, then two tool messages.
C16_Witness ==
    /\ IsExecuted /\ call.last
    /\ Len(chat_history) >= 4
    /\ HasToolCalls(chat_history[Len(chat_history) - 2])
    /\ Len(chat_history[Len(chat_history) - 2].tool_calls) = 2
    /\ CountWhere(chat_history, HasToolCalls) = 1
    /\ CountWhere(chat_history, IsToolMessage) = 2

\* The step ends a batch: its last call is executed or it holds no call.
EndsBatch ==
    /\ call'.op \in {"tool_calls", "execute_tool"}
    /\ t_pc' = "stream"
    /\ t_round' = t_round + 1

\* The round has produced no tool call: its stream is read to the end.
RoundWithoutBatch == t_pc = "stream" /\ t_pos = Len(t_stream)

\* C17: with tools enabled, a further completion request is issued exactly
\* when the round has produced a batch and the batch is done with, and it
\* carries the view computed from the history as the batch left it; a round
\* that produces no tool call ends the run, and nothing is requested after.
C17_RequestIffBatch ==
    [][ /\ (t_round' # t_round) =>
               \/ call'.op = "process_ollama_with_tools" /\ t_round' = 1
               \/ /\ EndsBatch
                  /\ t_batch' = <<>>
                  /\ call'.request =
                         preprocessed_view(Append(call'.before, LastOf(chat_history')))
        /\ (t_pc = "exec" /\ Len(t_batch) = 1 /\ call'.op = "execute_tool") => EndsBatch
        /\ (t_pc = "stream" /\ call'.op = "tool_calls" /\ call'.tool_calls = <<>>) =>
               EndsBatch
        /\ RoundWithoutBatch => t_pc' = "done" /\ t_round' = t_round
        /\ (t_pc = "done" /\ call'.op # "process_ollama_with_tools") =>
               t_pc' = "done" /\ t_round' = t_round
      ]_vars

\* The second request of a run was issued after a batch of one call, with a
\* view that holds the tool message of that call.
C17_Witness ==
    /\ IsExecuted /\ call.last
    /\ t_round = 2
    /\ t_pc = "stream"
    /\ call.request # <<>>
    /\ LastOf(call.request).role = "tool"
    /\ LastOf(call.request).content = call.ret

\* The place of the first chunk of type tool_calls, past the end if none.
RECURSIVE FirstBatch(_)
FirstBatch(stream) ==
    IF stream = <<>> THEN 1
    ELSE IF Head(stream).type = "tool_calls" THEN 1
    ELSE 1 + FirstBatch(Tail(stream))

\* The contents of the chunks of type content, in their order.
RECURSIVE ContentsOf(_)
ContentsOf(stream) ==
    IF stream = <<>> THEN <<>>
    ELSE IF Head(stream).type = "content"
    THEN <<Head(stream).content>> \o ContentsOf(Tail(stream))
    ELSE ContentsOf(Tail(stream))

Consumed(stream, pos) == SubSeq(stream, 1, pos)

\* C18: in a round, what has been yielded is the content of the content
\* chunks read so far, each once and in order; the round's tools are
\* executed once every content chunk before the first batch is yielded; and
\* no chunk after the first batch is read.
C18_ContentBeforeBatchForwarded ==
    (tools_enabled /\ t_pc \in {"stream", "exec", "done"}) =>
        /\ t_pos <= FirstBatch(t_stream)
        /\ t_pos <= Len(t_stream)
        /\ t_yielded = ContentsOf(Consumed(t_stream, t_pos))
        /\ t_pc = "exec" =>
               /\ t_pos = FirstBatch(t_stream)
               /\ t_yielded = ContentsOf(Consumed(t_stream, FirstBatch(t_stream) - 1))
        /\ t_pc = "done" =>
               /\ FirstBatch(t_stream) = Len(t_stream) + 1
               /\ t_yielded = ContentsOf(t_stream)

\* The stream "a", "b", batch, "b": the tools are being executed, "a" and
\* "b" were yielded, and a content chunk is left unread after the batch.
C18_Witness ==
    /\ tools_enabled
    /\ t_pc = "exec"
    /\ t_yielded = <<<<"a">>, <<"b">>>>
    /\ t_pos = 3
    /\ Len(t_stream) = 4
    /\ t_stream[4].type = "content"

\* The execution of the call fails: the tool is unknown, its arguments are
\* a string that is not JSON, or its execute raises.
Failing(tool_call, outcome) ==
    \/ tool_call.function.name \notin KnownTools
    \/ tool_call.function.arguments = "bad_json"
    \/ outcome = "raises"

\* C19: no exception leaves execute_tool.  When the tool is unknown, its
\* arguments are not JSON or it raises, execute_tool returns an error text,
\* that text is appended as the tool message of the call, and the loop goes
\* on: to the next call of the batch, or to the next round after the last.
C19_FailingToolDoesNotAbort ==
    /\ t_pc # "failed"
    /\ call.op = "execute_tool" =>
           /\ ~call.raised
           /\ Failing(call.tool_call, call.outcome) =>
                  /\ call.ret = IF call.tool_call.function.name \notin KnownTools
                                THEN NOT_FOUND ELSE EXEC_ERROR
                  /\ LastOf(chat_history).role = "tool"
                  /\ LastOf(chat_history).content = call.ret
                  /\ LastOf(chat_history).tool_call_id = CallId(call.tool_call)
                  /\ IF call.last
                     THEN t_pc = "stream" /\ t_batch = <<>>
                     ELSE t_pc = "exec" /\ t_batch # <<>>

\* The call with arguments that are not JSON was executed first of its
\* batch: the execution error is its tool message and the unknown tool is
\* next.
C19_Witness ==
    /\ call.op = "execute_tool"
    /\ call.tool_call = call_bad_json
    /\ call.ret = EXEC_ERROR
    /\ LastOf(chat_history).content = EXEC_ERROR
    /\ t_pc = "exec"
    /\ t_batch = <<call_missing>>

(***************************************************************************)
(* Properties of rechunk_to_words                                          *)
(***************************************************************************)
\* C20: however a text is cut into deltas, rechunk_to_words yields the
\* chunks it yields for the text as one delta; for "foo bar baz" they are
\* "foo", " bar", " baz".
C20_SplitInvariant ==
    rechunk.pc = "done" =>
        /\ rechunk.out = rechunk_to_words(<<rechunk.text>>)
        /\ rechunk.text = FOO_BAR_BAZ =>
               rechunk.out = << <<"f", "o", "o">>,
                                <<" ", "b", "a", "r">>,
                                <<" ", "b", "a", "z">> >>

\* "a", two whitespace characters, "a", fed as "a " and "\na": the cut is
\* inside the whitespace run, and the chunks are "a" and " a".
C20_Witness ==
    /\ rechunk.pc = "done"
    /\ rechunk.text = <<"a", " ", "\n", "a">>
    /\ rechunk.fed = 2
    /\ rechunk.buffer = <<"a">>
    /\ rechunk.out = << <<"a">>, <<" ", "a">> >>

\* The text with every whitespace run replaced by one space.
RECURSIVE Collapsed(_)
Collapsed(text) ==
    IF text = <<>> THEN <<>>
    ELSE IF isspace(Head(text)) THEN <<" ">> \o Collapsed(lstrip(text))
    ELSE <<Head(text)>> \o Collapsed(Tail(text))

\* One space for every whitespace run, and no trailing whitespace.
Normalized(text) == rstrip(Collapsed(text))

RECURSIVE Concatenated(_)
Concatenated(chunks) ==
    IF chunks = <<>> THEN <<>> ELSE Head(chunks) \o Concatenated(Tail(chunks))

\* A whole word: characters that are not whitespace, behind at most one space.
IsWord(text) ==
    /\ text # <<>>
    /\ \A k \in 2..Len(text) : ~isspace(text[k])
    /\ isspace(text[1]) => (text[1] = " " /\ Len(text) > 1)

\* What of the text the generator has been fed.
Fed(r) == SubSeq(r.text, 1, Len(r.text) - Len(Concatenated(r.deltas)))

\* The text up to its last whitespace character: the words that are ended.
RECURSIVE EndedWords(_)
EndedWords(text) ==
    IF text = <<>> \/ isspace(text[Len(text)]) THEN text
    ELSE EndedWords(SubSeq(text, 1, Len(text) - 1))

\* C21: every chunk rechunk_to_words yields is a whole word, not empty and
\* with no whitespace but at most one leading space; while deltas are still
\* to come only the words that whitespace has ended have been yielded; at
\* the end the chunks together are the text with every whitespace run
\* replaced by one space and without trailing whitespace.
C21_WholeWords ==
    rechunk.pc \in {"run", "done"} =>
        /\ \A k \in 1..Len(rechunk.out) : IsWord(rechunk.out[k])
        /\ rechunk.pc = "run" =>
               Concatenated(rechunk.out) = Normalized(EndedWords(Fed(rechunk)))
        /\ rechunk.pc = "done" =>
               Concatenated(rechunk.out) = Normalized(rechunk.text)

\* " a\na" fed in three deltas: the chunks are " a" and " a".
C21_Witness ==
    /\ rechunk.pc = "done"
    /\ rechunk.text = <<" ", "a", "\n", "a">>
    /\ rechunk.fed = 3
    /\ rechunk.out = << <<" ", "a">>, <<" ", "a">> >>

(***************************************************************************)
(* Properties of the sanitizer                                             *)
(***************************************************************************)
\* C22: however a text is cut into tokens, the outputs of the sanitizer for
\* the tokens, one after the other, are its output for the whole text.
C22_SanitizerSplitInvariant ==
    sanitizer.pc = "done" =>
        Concatenated(sanitizer.out) = clean_text_for_tts(sanitizer.text)

\* "(", U+1F600, ")" in three tokens, each cut inside the aside: the emoji
\* token yields nothing and the outputs together are "()".
C22_Witness ==
    /\ sanitizer.pc = "done"
    /\ sanitizer.text = <<PAREN_OPEN, GRINNING_FACE, PAREN_CLOSE>>
    /\ sanitizer.fed = 3
    /\ sanitizer.out = << <<PAREN_OPEN>>, <<PAREN_CLOSE>> >>

\* ( [ < and ) ] > as code points.
Openings == {PAREN_OPEN, 91, 60}

IsOpening(c) == c \in Openings

IsClosing(c) == c \in {PAREN_CLOSE, SQUARE_CLOSE, 62}

\* The opening bracket a closing bracket answers.
OpeningOf(c) ==
    IF c = PAREN_CLOSE THEN PAREN_OPEN ELSE IF c = SQUARE_CLOSE THEN 91 ELSE 60

IsEmoji(c) == c \in {GRINNING_FACE, THINKING_FACE}

\* What the claim lets through: depth counts the open brackets of each
\* kind and is never below 0; a character is emitted when no bracket is
\* open and it is neither an opening bracket nor an emoji.
RECURSIVE Outside(_, _)
Outside(text, depth) ==
    IF text = <<>> THEN <<>>
    ELSE LET c == Head(text)
             open == \E b \in DOMAIN depth : depth[b] > 0
         IN IF IsOpening(c)
            THEN Outside(Tail(text), [depth EXCEPT ![c] = @ + 1])
            ELSE IF IsClosing(c) /\ depth[OpeningOf(c)] > 0
            THEN Outside(Tail(text), [depth EXCEPT ![OpeningOf(c)] = @ - 1])
            ELSE IF open \/ IsEmoji(c)
            THEN Outside(Tail(text), depth)
            ELSE <<c>> \o Outside(Tail(text), depth)

NoOpenBracket == [b \in Openings |-> 0]

\* C23: what the sanitizer has emitted holds no opening bracket, no emoji
\* and no character from inside an open bracket; a closing bracket is in it
\* only where no bracket of its kind was open.
C23_NothingInsideBrackets ==
    sanitizer.pc = "done" =>
        /\ \A k \in 1..Len(Concatenated(sanitizer.out)) :
               /\ ~IsOpening(Concatenated(sanitizer.out)[k])
               /\ ~IsEmoji(Concatenated(sanitizer.out)[k])
        /\ Concatenated(sanitizer.out) = Outside(sanitizer.text, NoOpenBracket)

(***************************************************************************)
(* Properties of the synthesis session                                     *)
(***************************************************************************)
\* C24: in a synthesis session no Text or Eos frame is sent, and the sender
\* is not released from its wait, before the receiver has read the Ready
\* frame, in the purge or after it.
C24_TtsNothingSentBeforeReady ==
    (/\ tts.pc \in {"run", "returned"}
     /\ (tts.sent # <<>> \/ tts.tx # "waiting" \/ tts.start_sending))
        => tts.ready_received

\* Ready was the second frame of the stream and was read by the purge; the
\* sender has sent its first word since.
C24_Witness ==
    /\ tts.pc = "run"
    /\ tts.purged = 1
    /\ tts.ready_received
    /\ tts.sent = <<TTSClientTextMessage(<<"a">>)>>

\* C25: in a recognition session no frame is sent before the receiver has
\* read the Ready frame of the remote.
C25_SttNothingSentBeforeReady ==
    (stt.pc \in {"run", "returned"} /\ stt.sent # <<>>) => stt.ready_printed

\* The words of a text: the maximal runs of characters that are not
\* whitespace, in text order.
RECURSIVE WordsOf(_, _)
WordsOf(text, word) ==
    IF text = <<>> THEN (IF word = <<>> THEN <<>> ELSE <<word>>)
    ELSE IF isspace(Head(text))
    THEN (IF word = <<>> THEN <<>> ELSE <<word>>) \o WordsOf(Tail(text), <<>>)
    ELSE WordsOf(Tail(text), Append(word, Head(text)))

\* One Text frame for each word, then Eos.
TtsOutbound(text) ==
    [k \in 1..Len(WordsOf(text, <<>>)) |->
        [type |-> "Text", text |-> WordsOf(text, <<>>)[k]]] \o <<[type |-> "Eos"]>>

IsPrefix(p, q) == Len(p) <= Len(q) /\ SubSeq(q, 1, Len(p)) = p

\* C26: what the synthesis sender has sent is at every moment the start of
\* the sequence: one Text frame for each whitespace-separated word of the
\* text, in text order, then one Eos frame; when the sender is through it
\* is the whole sequence, the Eos frame alone for a text without words.
C26_TtsWordsThenEos ==
    tts.pc \in {"run", "returned"} =>
        /\ IsPrefix(tts.sent, TtsOutbound(tts.text))
        /\ tts.tx = "done" => tts.sent = TtsOutbound(tts.text)
        /\ tts.tx \in {"waiting", "done"} \/ tts.sent # TtsOutbound(tts.text)

\* The sender is through with " a " and with it the session has returned:
\* Text "a", then Eos.
C26_Witness ==
    /\ tts.pc = "returned"
    /\ tts.text = <<" ", "a", " ">>
    /\ tts.tx = "done"
    /\ tts.sent = <<[type |-> "Text", text |-> <<"a">>], [type |-> "Eos"]>>

\* The number of Audio frames that carry an input of n samples.
AudioFrames(n) == (n + 1919) \div 1920

\* The chunks of the input in order, the last filled up with zeros, then
\* the marker 999, then 25 frames of 1920 zeros.
SttOutbound(n) ==
    [k \in 1..AudioFrames(n) |->
        LET start == (k - 1) * 1920
            stop == IF k * 1920 < n THEN k * 1920 ELSE n
        IN [type |-> "Audio",
            pcm |-> [start |-> start, stop |-> stop,
                     pad |-> 1920 - (stop - start)]]]
    \o <<[type |-> "Marker", id |-> 999]>>
    \o [k \in 1..25 |-> [type |-> "Audio",
                         pcm |-> [start |-> 0, stop |-> 0, pad |-> 1920]]]

\* C27: what the recognition sender has sent is at every moment the start
\* of the sequence: one Audio frame of 1920 samples for each consecutive
\* chunk of the input (the last filled up with zeros), the Marker frame
\* with id 999, 25 Audio frames of 1920 zeros; when the sender is through
\* it is the whole sequence.
C27_SttChunksMarkerSilence ==
    stt.pc \in {"run", "returned"} =>
        /\ IsPrefix(stt.sent, SttOutbound(stt.n))
        /\ stt.tx = "done" <=> stt.sent = SttOutbound(stt.n)
        /\ \A k \in 1..Len(stt.sent) :
               stt.sent[k].type = "Audio" =>
                   (stt.sent[k].pcm.stop - stt.sent[k].pcm.start)
                       + stt.sent[k].pcm.pad = 1920

\* The sender is through with an input of one chunk and one sample: two
\* Audio frames, the second with 1919 zeros after its sample, the marker
\* and the 25 silence frames.
C27_Witness ==
    /\ stt.pc = "returned"
    /\ stt.n = 1921
    /\ stt.tx = "done"
    /\ Len(stt.sent) = 28
    /\ stt.sent[2].pcm = [start |-> 1920, stop |-> 1921, pad |-> 1919]

\* The step reads the frame at the head of the stream.
TtsReads(type) ==
    /\ tts.pc = "run"
    /\ tts.inbox # <<>>
    /\ Head(tts.inbox).type = type
    /\ tts'.inbox = Tail(tts.inbox)

TtsStreamingArmed(t) ==
    t.pc = "run" /\ t.rx = "receive" /\ t.ready_received /\ t.start_sending

\* C28: a Ready frame read by the purge or read after it takes the session
\* to its receiving loop with the sender armed; the purge goes over to
\* waiting for Ready when it has read PURGE_FRAMES frames, has timed out or
\* has met a payload that does not decode, without Ready; an Audio frame
\* read by the receiving loop is accumulated.
C28_TtsReadyReachesStreaming ==
    [][ /\ (tts.pc = "run" /\ tts.rx \in {"purge", "await_ready"} /\ TtsReads("Ready"))
               => TtsStreamingArmed(tts')
        /\ (tts.pc = "run" /\ tts.rx = "purge" /\ tts'.rx # "purge"
                /\ ~TtsReads("Ready") /\ ~TtsReads("Error"))
               => /\ tts'.rx = "await_ready"
                  /\ ~tts'.ready_received
                  /\ \/ tts'.purged = PURGE_FRAMES
                     \/ tts'.inbox = tts.inbox
                     \/ TtsReads("Garbage")
        /\ (tts.pc = "run" /\ tts.rx = "purge" /\ tts'.rx = "purge")
               => tts'.purged < PURGE_FRAMES
        /\ (TtsStreamingArmed(tts) /\ TtsReads("Audio"))
               => tts'.audio_pcm_chunks = tts.audio_pcm_chunks \o Head(tts.inbox).pcm
      ]_vars

\* The purge read PURGE_FRAMES residual frames, Ready came after it, and
\* the Audio frame that followed is accumulated; the sender is armed.
C28_Witness ==
    /\ tts.pc = "run"
    /\ tts.purged = PURGE_FRAMES
    /\ TtsStreamingArmed(tts)
    /\ tts.audio_pcm_chunks = <<1>>

\* C29: when an Error frame is read before Ready, or the connection is
\* closed with nothing left to read before Ready, the session returns to
\* its caller, with a failure.
C29_TtsFailureBeforeReadyReturns ==
    (/\ tts.pc = "run"
     /\ ~tts.ready_received
     /\ tts.rx = "false" \/ (tts.closed # "no" /\ tts.inbox = <<>>))
        ~> (tts.pc = "returned" /\ tts.result = FALSE)

\* C30: a session whose receiver read an Error frame in its receiving loop
\* returns a failure to its caller, whatever it had accumulated.
C30_ErrorInStreamingFails ==
    /\ (tts.pc = "returned" /\ tts.ready_received /\ tts.rx = "false")
           => tts.result = FALSE
    /\ (stt.pc = "returned" /\ stt.rx = "false") => stt.result = FALSE

\* C31: once the receiver of a synthesis session has terminated (end
\* frame, Error frame, message limit), the sender is cancelled: it sends no
\* further frame.
C31_SenderCancelledWithReceiver ==
    [][ (tts.pc = "run" /\ tts.rx \in {"true", "false", "raised"})
            => tts'.sent = tts.sent ]_vars

\* The frames of the remote the receiver has read.
SttRead == SubSeq(stt.stream, 1, Len(stt.stream) - Len(stt.inbox))

IsSentinelMarker(frame) == frame.type = "Marker" /\ frame.id = 999

\* The texts of the Word frames among frames, in their order.
RECURSIVE WordTexts(_)
WordTexts(frames) ==
    IF frames = <<>> THEN <<>>
    ELSE IF Head(frames).type = "Word"
    THEN <<Head(frames).text>> \o WordTexts(Tail(frames))
    ELSE WordTexts(Tail(frames))

\* The first k texts with one space between each two.
RECURSIVE SpaceJoined(_, _)
SpaceJoined(texts, k) ==
    IF k = 0 THEN <<>>
    ELSE IF k = 1 THEN texts[1]
    ELSE SpaceJoined(texts, k - 1) \o <<" ">> \o texts[k]

\* C32: the receiver of a recognition session has left its loop with
\* success exactly when the last frame it read is the Marker with id 999
\* (or the remote closed normally), wherever the sender stands; another
\* Marker does not end the loop; the words held then are the texts of the
\* Word frames read before, in arrival order, and the transcript of the
\* returned session is these texts joined by single spaces.
C32_SentinelMarkerEndsTranscript ==
    (stt.pc \in {"run", "returned"} /\ stt.flood = <<>>) =>
        LET read == SttRead
            last == read[Len(read)]
            texts == WordTexts(read)
        IN /\ stt.rx = "receive" =>
                  \A k \in 1..Len(read) :
                      ~IsSentinelMarker(read[k]) /\ read[k].type # "Error"
           /\ (read # <<>> /\ IsSentinelMarker(last)) => stt.rx = "true"
           /\ stt.rx = "true" =>
                  \/ read # <<>> /\ IsSentinelMarker(last)
                  \/ stt.inbox = <<>> /\ stt.closed = "ok"
           /\ [k \in 1..Len(stt.transcription_words) |->
                  stt.transcription_words[k].word] = texts
           /\ (stt.pc = "returned" /\ texts # <<>>) =>
                  stt.full_text = SpaceJoined(texts, Len(texts))

\* The sender was through before the receiver read the marker 999 that
\* came after "a", another marker and "b"; the transcript is "a b", and
\* the word after the marker is left unread.
C32_Witness ==
    /\ stt.pc = "returned"
    /\ stt.tx = "done"
    /\ stt.rx = "true"
    /\ stt.closed = "no"
    /\ stt.inbox = <<[type |-> "Word", text |-> <<"a">>, start_time |-> 0]>>
    /\ stt.full_text = <<"a", " ", "b">>

IsEndOfSynthesis(frame) ==
    frame.type = "Text" /\ frame.text = <<>> /\ frame.start_s = 0 /\ frame.stop_s = 0

TtsReceiverFinished(t) == t.pc = "run" /\ t.rx \in {"true", "false", "raised"}

\* C33: a Text frame read by the receiving loop of a synthesis session
\* ends the loop when its text is empty and both its times are zero, and
\* does not end it otherwise (short of the message limit); once the loop
\* is left no frame is read, counted or accumulated.
C33_OnlyEmptyZeroTextEnds ==
    [][ /\ (tts.pc = "run" /\ tts.rx = "receive" /\ TtsReads("Text"))
               => IF IsEndOfSynthesis(Head(tts.inbox))
                  THEN tts'.rx = "true"
                  ELSE tts'.rx = "receive" \/ tts'.message_count > 500
        /\ TtsReceiverFinished(tts)
               => /\ tts'.inbox = tts.inbox
                  /\ tts'.message_count = tts.message_count
                  /\ tts'.audio_pcm_chunks = tts.audio_pcm_chunks
      ]_vars

\* The loop went past "a" with times and an empty text with a start time,
\* was ended by the empty text with zero times, and left the Audio frame
\* after it unread.
C33_Witness ==
    /\ tts.pc = "run"
    /\ tts.stream = TTS_SYNTHESIS
    /\ tts.rx = "true"
    /\ tts.message_count = 8
    /\ tts.inbox = <<[type |-> "Audio", pcm |-> <<1>>]>>

\* The frames of the remote the receiver has read.
TtsRead == SubSeq(tts.stream, 1, Len(tts.stream) - Len(tts.inbox))

\* The frames after the first Ready frame.
RECURSIVE AfterReady(_)
AfterReady(frames) ==
    IF frames = <<>> THEN <<>>
    ELSE IF Head(frames).type = "Ready" THEN Tail(frames)
    ELSE AfterReady(Tail(frames))

\* The samples of the Audio frames among frames, in their order.
RECURSIVE Samples(_)
Samples(frames) ==
    IF frames = <<>> THEN <<>>
    ELSE IF Head(frames).type = "Audio"
    THEN Head(frames).pcm \o Samples(Tail(frames))
    ELSE Samples(Tail(frames))

TtsReceives == tts.pc = "run" /\ tts.rx = "receive" /\ tts.inbox # <<>>
                   /\ tts'.inbox = Tail(tts.inbox)

SttReceives == stt.pc = "run" /\ stt.rx = "receive" /\ stt.inbox # <<>>
                   /\ stt'.inbox = Tail(stt.inbox)

\* C35: every frame read by the receiving loop is counted, one that does
\* not decode too, and the loop is left as soon as the count is above 500
\* in a synthesis session, above 10000 in a recognition session.
C35_MessageLimitEndsLoop ==
    [][ /\ TtsReceives => tts'.message_count = tts.message_count + 1
        /\ SttReceives => stt'.message_count = stt.message_count + 1
        /\ tts'.pc = "run" =>
               /\ tts'.message_count <= 501
               /\ tts'.message_count > 500 => tts'.rx # "receive"
        /\ stt'.pc = "run" =>
               /\ stt'.message_count <= 10001
               /\ stt'.message_count > 10000 => stt'.rx # "receive"
      ]_vars

\* The recognition receiver has left its loop at the frame after the
\* 10000th, none of which decoded.
C35_Witness ==
    /\ stt.pc = "run"
    /\ stt.flood # <<>>
    /\ stt.message_count = 10001
    /\ stt.rx = "true"

\* C36: a frame whose payload does not decode, read while waiting for Ready
\* or in the receiving loop, changes nothing but the count of the frames
\* read (short of the message limit): the receiver stays where it is,
\* audio and words are as before.
C36_UndecodableFrameSkipped ==
    [][ /\ (tts.pc = "run" /\ tts.rx \in {"await_ready", "receive"}
                /\ TtsReads("Garbage"))
               => \/ tts' = [tts EXCEPT !.inbox = Tail(@),
                                        !.message_count =
                                            IF tts.rx = "receive" THEN @ + 1 ELSE @]
                  \/ tts'.message_count > 500
        /\ (SttReceives /\ Head(stt.inbox).type = "Garbage")
               => \/ stt' = [stt EXCEPT !.inbox = Tail(@),
                                        !.message_count = @ + 1]
                  \/ stt'.message_count > 10000
      ]_vars

\* A recognition session read a word, the frame that does not decode, a
\* marker and the word after it, and goes on.
C36_Witness ==
    /\ stt.pc = "run"
    /\ stt.rx = "receive"
    /\ stt.stream = STT_TRANSCRIPTION
    /\ stt.message_count = 5
    /\ Len(stt.transcription_words) = 2

\* A content with its emoji taken out.
Stripped(content) == SelectSeq(content, LAMBDA c : ~IsEmoji(c))

\* One delta for each chunk that is not empty and not of emoji alone: the
\* chunk without its emoji.
RECURSIVE DeltasOf(_)
DeltasOf(chunks) ==
    IF chunks = <<>> THEN <<>>
    ELSE IF Stripped(Head(chunks)) = <<>> THEN DeltasOf(Tail(chunks))
    ELSE <<Stripped(Head(chunks))>> \o DeltasOf(Tail(chunks))

\* C37: when chat_completion of either stream is through with the chunks
\* of its backend, it has yielded, in arrival order, the text without emoji
\* of every chunk that is neither empty nor of emoji alone.
C37_EveryChunkDelivered ==
    sanitizer.pc = "done" => sanitizer.out = DeltasOf(sanitizer.chunks)

(***************************************************************************)
(* C38: the history never gets shorter, so an index k that the history has *)
(* outgrown stays outgrown: every add_chat_message_delta called with a     *)
(* generating_message_i below the history's length returns False and       *)
(* leaves the history as it was, however many messages were added since.   *)
(***************************************************************************)
DeltaCalled ==
    /\ call'.op = "add_chat_message_delta"
    /\ call'.before = chat_history

StaleIndex(history, generating_message_i) ==
    generating_message_i # NoIndex /\ generating_message_i < Len(history)

C38_StaleIndexStaysRejected ==
    [][ /\ Len(chat_history') >= Len(chat_history)
        /\ (DeltaCalled /\ StaleIndex(chat_history, call'.generating_message_i))
              => (call'.ret = FALSE /\ chat_history' = chat_history) ]_vars

\* A delta for the message generated at index 1 arrives after the tool loop
\* has put an assistant message and a tool result behind it.
C38_Witness ==
    /\ call.op = "add_chat_message_delta"
    /\ call.generating_message_i = 1
    /\ Len(call.before) = 3
    /\ call.before[Len(call.before)].role = "tool"
    /\ call.ret = FALSE
    /\ chat_history = call.before

(***************************************************************************)
(* C39: the view the tool loop sends with its next completion request      *)
(* holds no assistant message carrying tool-call descriptors: the message  *)
(* appended for the batch, whose content is empty, stays in the history    *)
(* and is dropped from the view, so the tool results of the batch stand in *)
(* the view without it.                                                    *)
(***************************************************************************)
\* The step that ended a batch and issued the next request.
BatchEnded ==
    /\ call.op \in {"tool_calls", "execute_tool"}
    /\ "request" \in DOMAIN call
    /\ call.request # <<>>

CarriesToolCalls(message) == "tool_calls" \in DOMAIN message

\* Where the assistant message of the latest batch stands in the history.
LastBatchAt(history) ==
    CHOOSE p \in 0..Len(history) :
        /\ p > 0 => CarriesToolCalls(history[p])
        /\ \A q \in (p + 1)..Len(history) : ~CarriesToolCalls(history[q])

ToolCallMessages(messages) == SelectSeq(messages, CarriesToolCalls)

HasContentLeft(message) == RemoveInterruption(message.content) # <<>>

LargeBatchEnded ==
    /\ BatchEnded
    /\ call.op = "execute_tool"
    /\ LastBatchAt(chat_history) > 0
    /\ Len(chat_history[LastBatchAt(chat_history)].tool_calls) >= 2

\* The history the view was computed from.
ViewedHistory == Append(call.before, chat_history[Len(chat_history)])

LastBatch == ViewedHistory[LastBatchAt(ViewedHistory)].tool_calls

HasRoleTool(message) == message.role = "tool"

\* The tool messages appended since the batch's assistant message.
BatchResults ==
    SelectSeq(SubSeq(ViewedHistory, LastBatchAt(ViewedHistory) + 1, Len(ViewedHistory)),
              HasRoleTool)

IdOf(tool_call) == IF "id" \in DOMAIN tool_call THEN tool_call.id ELSE "unknown"

ResultTexts(messages) == [k \in 1..Len(messages) |-> messages[k].content]

OneToolMessagePerCall ==
    /\ Len(BatchResults) = Len(LastBatch)
    /\ \A k \in 1..Len(LastBatch) : BatchResults[k].tool_call_id = IdOf(LastBatch[k])

LastOfView == call.request[Len(call.request)]

C40_BatchMergedUnderFirstCall ==
    LargeBatchEnded =>
        /\ OneToolMessagePerCall
        /\ LastOfView.role = "tool"
        /\ LastOfView.content = SpaceJoined(ResultTexts(BatchResults), Len(BatchResults))
        /\ LastOfView.tool_call_id = IdOf(LastBatch[1])

\* The messages of the history the filter keeps, and where the run of tool
\* messages at their end starts.
KeptOfViewed == SelectSeq(ViewedHistory, HasContentLeft)

ToolRunStart ==
    CHOOSE p \in 1..Len(KeptOfViewed) :
        /\ \A q \in p..Len(KeptOfViewed) : HasRoleTool(KeptOfViewed[q])
        /\ p > 1 => ~HasRoleTool(KeptOfViewed[p - 1])

ToolRun == SubSeq(KeptOfViewed, ToolRunStart, Len(KeptOfViewed))

\* C40 as amended: the history holds one tool message per call, and the
\* view ends with one tool message merging the whole run of tool messages at
\* the end of the filtered history: the results of the batch that follow the
\* last message another producer added while the tools ran, preceded by the
\* results of earlier batches that only dropped messages separate from them.
\* Its content is the merged results joined by single spaces and its
\* tool_call_id is that of the first message merged.
C40_ToolRunMergedUnderFirstMessage ==
    LargeBatchEnded =>
        /\ OneToolMessagePerCall
        /\ HasRoleTool(KeptOfViewed[Len(KeptOfViewed)])
        /\ KeptOfViewed[Len(KeptOfViewed)] = BatchResults[Len(BatchResults)]
        /\ LastOfView.role = "tool"
        /\ LastOfView.content = SpaceJoined(ResultTexts(ToolRun), Len(ToolRun))
        /\ LastOfView.tool_call_id = ToolRun[1].tool_call_id
        /\ Len(call.request) > 1 => call.request[Len(call.request) - 1].role # "tool"

\* The batch [missing, get_current_time] after an earlier batch
\* [get_current_time]: the three results are one message under the id of
\* the earlier call.
C40_Witness ==
    /\ LargeBatchEnded
    /\ Len(chat_history) = 6
    /\ IdOf(LastBatch[1]) = "c2"
    /\ LastOfView.content = RESULT_STR \o <<" ">> \o NOT_FOUND \o <<" ">> \o RESULT_STR
    /\ LastOfView.tool_call_id = "c1"
    /\ Len(call.request) = 2

====
